---------------------------- MODULE Spec2Model ----------------------------
(***************************************************************************)
(* A model of the libregto poker tutor's core: the progress store          *)
(* (storage.js), the ScenarioEngine session controller                     *)
(* (scenarios/ScenarioEngine.js), and the pure functions of the hand and   *)
(* range data (data/hands.js, data/ranges.js, components/RangeGrid.js) and *)
(* of the board-texture scenario.                                          *)
(*                                                                         *)
(* JavaScript values are modelled as follows.  An object is a function     *)
(* with string keys (a record); an array is a sequence; null in a string   *)
(* position is the string "null"; a number-or-null field (bestTime) is a   *)
(* sequence of length 0 (null) or 1 (the number).  The content of the      *)
(* localStorage key is <<>> when the key is absent and <<doc>> when it     *)
(* holds the JSON text of doc: every value the store writes is JSON-native *)
(* (booleans, integers, strings, null, arrays, plain objects), so the text *)
(* is represented by the value it parses to.                               *)
(* A string the hand functions index character by character (a hand       *)
(* notation) is the sequence of its characters, "" being <<>>.             *)
(***************************************************************************)
EXTENDS Integers, Sequences, FiniteSets, TLC

VARIABLES
  localStorage,     \* content of localStorage[STORAGE_KEY]: <<>> or <<doc>>
  defaultProgress,  \* the module-level DEFAULT_PROGRESS object (shared, mutable)
  backup,           \* the last string returned by exportProgress: <<>> or <<doc>>
  ret,              \* what the last store call returned
  attempted,        \* history: unit id -> accuracies passed to recorded attempts
  ops,              \* number of store calls made so far
  fault,            \* what is wrong with the storage: a subset of StorageFaults
  state,            \* the engine's this.state
  result,           \* what the last engine call returned: <<>> (null, or nothing) or <<result>>
  ended,            \* what onScenarioEnd last received: <<>> or <<data>>
  call,             \* the engine method called last
  starts,           \* number of start() calls made so far
  notation,         \* the hand notation last handed to a hand function
  cell,             \* the grid cell last handed to getHandFromGrid: <<>> or <<[row, col]>>
  hits,             \* the grid positions of the hands of ALL_HANDS visited so far
  hands,            \* the range last handed to a range function: a set of notations
  board,            \* the board last handed to analyzeBoardTexture: an array of cards
  returned,         \* what the last hand, range or board function returned: <<>> or <<value>>
  args,             \* the arguments of the last scenario-data function call: <<>> or <<record>>
  positionDrill,    \* the position-speed drill's module-level variables and its page
  timers            \* the callbacks of the drill scheduled and not yet run, oldest first

storeVars == <<localStorage, defaultProgress, backup, ret, attempted, ops, fault>>

engineVars == <<state, result, ended, call, starts>>

handVars == <<notation, cell, hits, hands, board, returned, args>>

\* What no hand, range or board function touches.
drillVars == <<positionDrill, timers>>

sessionVars == <<storeVars, engineVars, drillVars>>

---------------------------------------------------------------------------
(* Bounds of the model *)

\* Recorded attempts explored in one behaviour of SpecAttempts.
MaxAttempts == 3

\* Completing sessions explored in one behaviour of SpecStages.
MaxPasses == 6

\* Recording calls explored in one behaviour of Spec, between which progress
\* may be exported, imported and reset.
MaxOps == 2

\* Store calls explored in one behaviour of SpecMerge.
MaxMergeOps == 2

\* Store calls explored in one behaviour of SpecFaults.
MaxFaultOps == 2

\* config.totalQuestions of the modelled engine (the scenarios pass 20).
TotalQuestions == 3

\* Answers one session accepts before the model stops submitting.
MaxAnswers == 3

\* start() calls explored in one behaviour of SpecEngine.
MaxSessions == 1

---------------------------------------------------------------------------
(* Configuration tables of storage.js *)

MODULE_ORDER == <<"hand-strength", "position", "equity", "ranges">>

DRILL_ORDER == <<"hand-ranking", "open-fold", "equity-snap", "range-check", "position-speed">>

DRILL_THRESHOLDS ==
  [d \in {"hand-ranking", "open-fold", "equity-snap", "range-check", "position-speed"} |->
     CASE d = "hand-ranking"   -> 80
       [] d = "open-fold"      -> 75
       [] d = "equity-snap"    -> 70
       [] d = "range-check"    -> 75
       [] d = "position-speed" -> 80]

SCENARIO_ORDER ==
  <<"defend-3bet", "bb-defense", "3bet-value", "sb-3bet-fold", "cold-4bet", "board-texture">>

SCENARIO_THRESHOLDS ==
  [s \in {"defend-3bet", "bb-defense", "3bet-value", "sb-3bet-fold", "cold-4bet", "board-texture"} |->
     CASE s = "defend-3bet"   -> 75
       [] s = "bb-defense"    -> 75
       [] s = "3bet-value"    -> 75
       [] s = "sb-3bet-fold"  -> 75
       [] s = "cold-4bet"     -> 70
       [] s = "board-texture" -> 80]

TIER_1_SCENARIOS == <<"defend-3bet", "bb-defense", "3bet-value", "sb-3bet-fold">>

stageOrder == <<"foundations", "drills", "scenarios", "full-hands">>

Range(seq) == {seq[i] : i \in 1..Len(seq)}

ModuleIds == Range(MODULE_ORDER)
DrillIds == Range(DRILL_ORDER)
ScenarioIds == Range(SCENARIO_ORDER)

\* Array.prototype.indexOf, 0-based, -1 when absent.
indexOf(seq, x) ==
  IF x \in Range(seq) THEN (CHOOSE i \in 1..Len(seq) : seq[i] = x) - 1 ELSE 0 - 1

\* Array.prototype.includes
includes(seq, x) == x \in Range(seq)

\* Array.prototype.push with the guard `!achievements.includes(badge)` around it.
pushIfAbsent(seq, cond, badge) ==
  IF cond /\ ~includes(seq, badge) THEN Append(seq, badge) ELSE seq

\* new Date().toISOString(): some non-null timestamp string.
Now == "ts"

Null == "null"

---------------------------------------------------------------------------
(* DEFAULT_PROGRESS as written in the source *)

foundationModule(unlocked) ==
  [unlocked |-> unlocked, completed |-> FALSE, score |-> 0, bestScore |-> 0,
   attempts |-> 0, lastAttempt |-> Null]

drillModule(unlocked) ==
  [unlocked |-> unlocked, completed |-> FALSE, bestScore |-> 0, bestStreak |-> 0,
   bestTime |-> <<>>, attempts |-> 0, lastAttempt |-> Null]

scenarioModule(unlocked) ==
  [unlocked |-> unlocked, completed |-> FALSE, bestScore |-> 0,
   attempts |-> 0, lastAttempt |-> Null]

DEFAULT_PROGRESS ==
  [version |-> 1,
   stages |->
     [s \in Range(stageOrder) |->
        CASE s = "foundations" ->
               [unlocked |-> TRUE, completed |-> FALSE,
                modules |-> [m \in ModuleIds |-> foundationModule(m = "hand-strength")]]
          [] s = "drills" ->
               [unlocked |-> FALSE, completed |-> FALSE,
                modules |-> [d \in DrillIds |-> drillModule(d = "hand-ranking")],
                totalAttempts |-> 0,
                achievements |-> <<>>]
          [] s = "scenarios" ->
               [unlocked |-> FALSE, completed |-> FALSE,
                modules |-> [c \in ScenarioIds |-> scenarioModule(c # "cold-4bet")],
                achievements |-> <<>>]
          [] s = "full-hands" ->
               [unlocked |-> FALSE, completed |-> FALSE, modules |-> <<>>]],
   stats |-> [totalQuizzes |-> 0, correctAnswers |-> 0, totalTime |-> 0,
              streak |-> 0, bestStreak |-> 0],
   settings |-> [soundEnabled |-> TRUE, animationsEnabled |-> TRUE],
   lastUpdated |-> Null]

---------------------------------------------------------------------------
(* loadProgress / mergeWithDefaults / saveProgress *)

\* Keys whose value is a plain object (typeof v === 'object', not null, not an array).
ObjectKeys ==
  {"stages", "stats", "settings", "modules"} \cup Range(stageOrder)
    \cup ModuleIds \cup DrillIds \cup ScenarioIds

\* Keys whose value is an array.
ArrayKeys == {"achievements"}

\* mergeWithDefaults(stored, defaults): a fresh object with the keys of both;
\* a stored plain object is merged recursively over defaults[key] || {}, any
\* other stored value (and every array) is taken as it is stored.  Merging a
\* tree over an equal tree yields that tree, which the first branch uses to
\* skip the descent.
RECURSIVE mergeWithDefaults(_, _)
mergeWithDefaults(stored, defaults) ==
  IF stored = defaults THEN stored
  ELSE
  [key \in (DOMAIN defaults) \cup (DOMAIN stored) |->
     IF key \in DOMAIN stored
       THEN IF key \in ObjectKeys
              THEN mergeWithDefaults(stored[key],
                                     IF key \in DOMAIN defaults THEN defaults[key] ELSE <<>>)
              ELSE stored[key]
       ELSE defaults[key]]

\* The tree loadProgress returns: the stored document merged over the defaults,
\* or a shallow copy of DEFAULT_PROGRESS when nothing is stored.
loadProgress(ls, defaults) ==
  IF ls # <<>> THEN mergeWithDefaults(ls[1], defaults) ELSE defaults

\* loadProgress copies only the top level ({ ...DEFAULT_PROGRESS }) and
\* mergeWithDefaults copies an object only where the stored document has it, so
\* every object or array the stored document lacks is the very object of
\* DEFAULT_PROGRESS: what an operation writes into it is written into
\* DEFAULT_PROGRESS.  sharedWrites gives DEFAULT_PROGRESS after an operation
\* turned the tree `loaded` into `updated` (a subtree the operation left as it
\* was loaded leaves that part of DEFAULT_PROGRESS as it was).
RECURSIVE sharedWrites(_, _, _, _)
sharedWrites(defaults, stored, loaded, updated) ==
  IF updated = loaded THEN defaults
  ELSE
  [key \in DOMAIN defaults |->
     IF key \in ObjectKeys
       THEN IF key \in DOMAIN stored
              THEN sharedWrites(defaults[key], stored[key], loaded[key], updated[key])
              ELSE updated[key]
       ELSE IF key \in ArrayKeys /\ key \notin DOMAIN stored
              THEN updated[key]
              ELSE defaults[key]]

storedDoc(ls) == IF ls # <<>> THEN ls[1] ELSE <<>>

\* What can be wrong with the storage: the text under the key is not JSON
\* (JSON.parse throws), or the quota is exhausted (setItem throws).
StorageFaults == {"unparsable", "quota"}

\* What the try block of loadProgress works on: the content of the key, or
\* nothing when JSON.parse threw and the catch block took over.
parsed(ls, faults) == IF "unparsable" \in faults THEN <<>> ELSE ls

\* A variant of saveSucceeds that reports success whatever happened.
saveAlwaysSucceeds(faults) == TRUE

\* Whether the try block of saveProgress runs to its `return true`.
saveSucceeds(faults) == "quota" \notin faults

\* What is wrong with the storage once setItem or removeItem replaced the text.
rewritten(faults) == faults \ {"unparsable"}

\* saveProgress: stamps lastUpdated and writes the JSON text.
saveProgress(progress) == <<[progress EXCEPT !.lastUpdated = Now]>>


---------------------------------------------------------------------------
(* The operations of storage.js on a loaded progress tree *)

\* Object.assign(target, updates)
objectAssign(target, updates) ==
  [k \in (DOMAIN target) \cup (DOMAIN updates) |->
     IF k \in DOMAIN updates THEN updates[k] ELSE target[k]]

\* A variant of everyCompleted that is satisfied by one completed unit.
someCompleted(order, modules) ==
  \E i \in 1..Len(order) : order[i] \in DOMAIN modules /\ modules[order[i]].completed

\* MODULE_ORDER.every(id => stageData.modules[id]?.completed), and likewise for
\* the other orders: a unit missing from the tree counts as not completed.
everyCompleted(order, modules) ==
  \A i \in 1..Len(order) : order[i] \in DOMAIN modules /\ modules[order[i]].completed

\* unlockNextStage(progress, currentStage)
unlockNextStage(progress, currentStage) ==
  LET currentIndex == indexOf(stageOrder, currentStage) IN
    IF currentIndex >= 0 /\ currentIndex < Len(stageOrder) - 1
      THEN [progress EXCEPT !.stages[stageOrder[currentIndex + 2]].unlocked = TRUE]
      ELSE progress

\* The body of updateModuleProgress between loadProgress and saveProgress.
updateModuleProgressTree(progress, stage, moduleId, updates) ==
  LET assigned == objectAssign(progress.stages[stage].modules[moduleId], updates)
      module == IF "score" \in DOMAIN updates /\ updates.score > assigned.bestScore
                  THEN [assigned EXCEPT !.bestScore = updates.score]
                  ELSE assigned
  IN  [progress EXCEPT !.stages[stage].modules[moduleId] = module]

\* The body of completeModule between loadProgress and saveProgress.
completeModuleTree(progress, stage, moduleId, score) ==
  LET old == progress.stages[stage].modules[moduleId]
      module == [old EXCEPT !.completed = TRUE,
                            !.score = score,
                            !.attempts = @ + 1,
                            !.lastAttempt = Now,
                            !.bestScore = IF score > @ THEN score ELSE @]
      p1 == [progress EXCEPT !.stages[stage].modules[moduleId] = module]
      currentIndex == indexOf(MODULE_ORDER, moduleId)
      p2 == IF currentIndex >= 0 /\ currentIndex < Len(MODULE_ORDER) - 1
               /\ MODULE_ORDER[currentIndex + 2] \in DOMAIN p1.stages[stage].modules
              THEN [p1 EXCEPT !.stages[stage].modules[MODULE_ORDER[currentIndex + 2]].unlocked = TRUE]
              ELSE p1
      allCompleted == everyCompleted(MODULE_ORDER, p2.stages[stage].modules)
  IN  IF allCompleted
        THEN unlockNextStage([p2 EXCEPT !.stages[stage].completed = TRUE], stage)
        ELSE p2

\* checkDrillAchievements(progress, drillId, stats)
checkDrillAchievements(progress, drillId, stats) ==
  LET a0 == progress.stages.drills.achievements
      a1 == pushIfAbsent(a0, stats.avgTime < 2000, "speed-demon")
      a2 == pushIfAbsent(a1, stats.accuracy = 100, "perfect-run")
      a3 == pushIfAbsent(a2, stats.bestStreak >= 25, "on-fire")
      allCompleted == everyCompleted(DRILL_ORDER, progress.stages.drills.modules)
      a4 == pushIfAbsent(a3, allCompleted, "drill-master")
  IN  [progress EXCEPT !.stages.drills.achievements = a4]

\* getDrillThreshold / the threshold lookup of updateDrillProgress
getDrillThreshold(drillId) ==
  IF drillId \in DOMAIN DRILL_THRESHOLDS THEN DRILL_THRESHOLDS[drillId] ELSE 70

\* A variant of drillPassed whose boundary is exclusive.
drillPassedStrict(drillId, stats) == stats.accuracy > getDrillThreshold(drillId)

\* passed = stats.accuracy >= threshold
drillPassed(drillId, stats) == stats.accuracy >= getDrillThreshold(drillId)

\* A variant of higherScore that keeps the latest accuracy.
latestScore(accuracy, bestScore) == accuracy

\* if (stats.accuracy > unit.bestScore) unit.bestScore = stats.accuracy
higherScore(accuracy, bestScore) == IF accuracy > bestScore THEN accuracy ELSE bestScore

\* The block of updateDrillProgress under `if (passed && !drill.completed)`.
drillNewlyCompleted(progress, drillId, stats) ==
  LET p1 == [progress EXCEPT !.stages.drills.modules[drillId].completed = TRUE]
      currentIndex == indexOf(DRILL_ORDER, drillId)
      p2 == IF currentIndex >= 0 /\ currentIndex < Len(DRILL_ORDER) - 1
               /\ DRILL_ORDER[currentIndex + 2] \in DOMAIN p1.stages.drills.modules
              THEN [p1 EXCEPT !.stages.drills.modules[DRILL_ORDER[currentIndex + 2]].unlocked = TRUE]
              ELSE p1
      allCompleted == everyCompleted(DRILL_ORDER, p2.stages.drills.modules)
      p3 == IF allCompleted
              THEN [p2 EXCEPT !.stages.drills.completed = TRUE,
                              !.stages.scenarios.unlocked = TRUE]
              ELSE p2
  IN  checkDrillAchievements(p3, drillId, stats)

\* The body of updateDrillProgress between loadProgress and saveProgress.
updateDrillProgressTree(progress, drillId, stats) ==
  LET old == progress.stages.drills.modules[drillId]
      drill == [old EXCEPT
                  !.attempts = @ + 1,
                  !.lastAttempt = Now,
                  !.bestScore = higherScore(stats.accuracy, @),
                  !.bestStreak = IF stats.bestStreak > @ THEN stats.bestStreak ELSE @,
                  !.bestTime = IF stats.avgTime # 0 /\ (@ = <<>> \/ stats.avgTime < @[1])
                                 THEN <<stats.avgTime>> ELSE @]
      p1 == [progress EXCEPT !.stages.drills.modules[drillId] = drill,
                             !.stages.drills.totalAttempts = @ + 1]
  IN  IF drillPassed(drillId, stats) /\ ~old.completed
        THEN drillNewlyCompleted(p1, drillId, stats)
        ELSE p1

\* checkScenarioAchievements(progress, scenarioId, stats)
checkScenarioAchievements(progress, scenarioId, stats) ==
  LET modules == progress.stages.scenarios.modules
      mastered(ids) == \A id \in ids : id \in DOMAIN modules /\ modules[id].bestScore >= 85
      a0 == progress.stages.scenarios.achievements
      a1 == pushIfAbsent(a0, stats.accuracy = 100, "perfect-decisions")
      a2 == pushIfAbsent(a1, everyCompleted(SCENARIO_ORDER, modules), "scenario-solver")
      a3 == pushIfAbsent(a2,
              everyCompleted(<<"defend-3bet", "bb-defense", "3bet-value", "sb-3bet-fold", "cold-4bet">>,
                             modules),
              "preflop-master")
      a4 == pushIfAbsent(a3, mastered({"3bet-value", "sb-3bet-fold"}), "3bet-specialist")
      a5 == pushIfAbsent(a4, mastered({"defend-3bet", "bb-defense"}), "defender")
  IN  [progress EXCEPT !.stages.scenarios.achievements = a5]

\* getScenarioThreshold / the threshold lookup of updateScenarioProgress
getScenarioThreshold(scenarioId) ==
  IF scenarioId \in DOMAIN SCENARIO_THRESHOLDS THEN SCENARIO_THRESHOLDS[scenarioId] ELSE 75

\* passed = stats.accuracy >= threshold
scenarioPassed(scenarioId, stats) == stats.accuracy >= getScenarioThreshold(scenarioId)

\* TIER_1_SCENARIOS.filter(id => modules[id]?.bestScore >= 75).length
tier1Completed(modules) ==
  Cardinality({i \in 1..Len(TIER_1_SCENARIOS) :
                 TIER_1_SCENARIOS[i] \in DOMAIN modules
                   /\ modules[TIER_1_SCENARIOS[i]].bestScore >= 75})

\* A variant of unlockCold4bet that waits for three Tier-1 scenarios.
unlockCold4betAtThree(progress) ==
  IF tier1Completed(progress.stages.scenarios.modules) >= 3
       /\ "cold-4bet" \in DOMAIN progress.stages.scenarios.modules
    THEN [progress EXCEPT !.stages.scenarios.modules["cold-4bet"].unlocked = TRUE]
    ELSE progress

\* if (tier1Completed >= 2 && modules['cold-4bet']) modules['cold-4bet'].unlocked = true
unlockCold4bet(progress) ==
  IF tier1Completed(progress.stages.scenarios.modules) >= 2
       /\ "cold-4bet" \in DOMAIN progress.stages.scenarios.modules
    THEN [progress EXCEPT !.stages.scenarios.modules["cold-4bet"].unlocked = TRUE]
    ELSE progress

\* The block of updateScenarioProgress under `if (passed && !scenario.completed)`.
scenarioNewlyCompleted(progress, scenarioId, stats) ==
  LET p1 == [progress EXCEPT !.stages.scenarios.modules[scenarioId].completed = TRUE]
      p2 == unlockCold4bet(p1)
      allCompleted == everyCompleted(SCENARIO_ORDER, p2.stages.scenarios.modules)
      p3 == IF allCompleted
              THEN [p2 EXCEPT !.stages.scenarios.completed = TRUE,
                              !.stages["full-hands"].unlocked = TRUE]
              ELSE p2
  IN  checkScenarioAchievements(p3, scenarioId, stats)

\* The body of updateScenarioProgress between loadProgress and saveProgress.
updateScenarioProgressTree(progress, scenarioId, stats) ==
  LET old == progress.stages.scenarios.modules[scenarioId]
      scenario == [old EXCEPT
                     !.attempts = @ + 1,
                     !.lastAttempt = Now,
                     !.bestScore = higherScore(stats.accuracy, @)]
      p1 == [progress EXCEPT !.stages.scenarios.modules[scenarioId] = scenario]
  IN  IF scenarioPassed(scenarioId, stats) /\ ~old.completed
        THEN scenarioNewlyCompleted(p1, scenarioId, stats)
        ELSE p1


---------------------------------------------------------------------------
(* Inputs of the store calls *)

\* Accuracies a session can report for a unit: just below its pass threshold
\* (one question of twenty less), exactly the threshold, and a perfect session.
AccuracyInputs(threshold) == {threshold - 5, threshold, 100}

\* The summaries a drill passes to updateDrillProgress: the accuracies above,
\* the perfect session being a fast one with a long streak (avgTime in ms).
DrillStatsInputs(drillId) ==
  {[accuracy |-> a,
    bestStreak |-> IF a = 100 THEN 25 ELSE 3,
    avgTime |-> IF a = 100 THEN 1500 ELSE 2500] :
     a \in AccuracyInputs(getDrillThreshold(drillId))}

ScenarioStatsInputs(scenarioId) ==
  {[accuracy |-> a] : a \in AccuracyInputs(getScenarioThreshold(scenarioId))}

\* Quiz scores the foundation modules report.
ScoreInputs == {60, 100}

\* An id no table knows, to take the "not found" returns.
UnknownId == "no-such-unit"

---------------------------------------------------------------------------
(* The exported functions of storage.js as actions *)

\* The tree a store function works on.
Progress == loadProgress(parsed(localStorage, fault), defaultProgress)

\* What a store function leaves behind once it turned the loaded tree into
\* `updated` and saved it.
Saved(loaded, updated) ==
  LET tree == updated IN
    /\ defaultProgress' =
         sharedWrites(defaultProgress, storedDoc(parsed(localStorage, fault)), loaded, tree)
    /\ ret' = saveSucceeds(fault)
    /\ IF saveSucceeds(fault)
         THEN localStorage' = saveProgress(tree) /\ fault' = rewritten(fault)
         ELSE UNCHANGED <<localStorage, fault>>

NotFound ==
  /\ ret' = FALSE
  /\ UNCHANGED <<localStorage, defaultProgress, fault>>

\* The four writers below take as `progress` the tree their opening
\* loadProgress() returned.
completeModule(progress, stage, moduleId, score) ==
  /\ IF stage \in DOMAIN progress.stages /\ moduleId \in DOMAIN progress.stages[stage].modules
       THEN Saved(progress, completeModuleTree(progress, stage, moduleId, score))
       ELSE NotFound
  /\ UNCHANGED <<backup, attempted>>

updateModuleProgress(progress, stage, moduleId, updates) ==
  /\ IF stage \in DOMAIN progress.stages /\ moduleId \in DOMAIN progress.stages[stage].modules
       THEN Saved(progress, updateModuleProgressTree(progress, stage, moduleId, updates))
       ELSE NotFound
  /\ UNCHANGED <<backup, attempted>>

updateDrillProgress(progress, drillId, stats) ==
  /\ IF drillId \in DOMAIN progress.stages.drills.modules
       THEN /\ Saved(progress, updateDrillProgressTree(progress, drillId, stats))
            /\ attempted' = [attempted EXCEPT ![drillId] = @ \cup {stats.accuracy}]
       ELSE /\ NotFound
            /\ UNCHANGED attempted
  /\ UNCHANGED backup

updateScenarioProgress(progress, scenarioId, stats) ==
  /\ IF scenarioId \in DOMAIN progress.stages.scenarios.modules
       THEN /\ Saved(progress, updateScenarioProgressTree(progress, scenarioId, stats))
            /\ attempted' = [attempted EXCEPT ![scenarioId] = @ \cup {stats.accuracy}]
       ELSE /\ NotFound
            /\ UNCHANGED attempted
  /\ UNCHANGED backup

\* exportProgress: JSON.stringify(loadProgress())
exportProgress ==
  /\ backup' = <<Progress>>
  /\ UNCHANGED <<localStorage, defaultProgress, ret, attempted, fault>>

\* importProgress(jsonString) with a string that parses to `imported`.
importDocument(imported) ==
  /\ ret' = saveSucceeds(fault)
  /\ IF saveSucceeds(fault)
       THEN localStorage' = saveProgress(imported) /\ fault' = rewritten(fault)
       ELSE UNCHANGED <<localStorage, fault>>
  /\ UNCHANGED <<defaultProgress, backup, attempted>>

\* importProgress(jsonString) with a string exportProgress returned earlier.
importProgress ==
  /\ backup # <<>>
  /\ importDocument(backup[1])

\* resetProgress: localStorage.removeItem(STORAGE_KEY)
resetProgress ==
  /\ localStorage' = <<>>
  /\ fault' = rewritten(fault)
  /\ ret' = TRUE
  /\ UNCHANGED <<defaultProgress, backup, attempted>>

StoreInit ==
  /\ localStorage = <<>>
  /\ defaultProgress = DEFAULT_PROGRESS
  /\ backup = <<>>
  /\ ret = TRUE
  /\ attempted = [id \in DrillIds \cup ScenarioIds |-> {}]
  /\ ops = 0
  /\ fault = {}

---------------------------------------------------------------------------
(* ScenarioEngine, configured as the 3-bet-for-value scenario *)

SCENARIO_ID == "3bet-value"

\* this.config: the scenario's id and its session length.
config == [id |-> SCENARIO_ID, totalQuestions |-> TotalQuestions]

\* What generateQuestion can return, reduced to the fields the engine reads:
\* the spot key as category and the action the question expects.
Questions ==
  {[category |-> "BB_vs_steal", correctAction |-> "3-bet"],
   [category |-> "SB_vs_BTN", correctAction |-> "Fold"]}

\* The actions of the decision buttons handed to submitAnswer.
Decisions == {"3-bet", "Fold"}

\* performance.now() - questionStartTime, in ms.
Elapsed == {1200}

\* normalizeAction: lower case, hyphens and blanks removed.
normalizeAction(action) ==
  CASE action \in {"3-bet", "3-Bet", "3bet", "threebet", "three-bet"} -> "3bet"
    [] action \in {"Call", "call"} -> "call"
    [] action \in {"Fold", "fold"} -> "fold"
    [] OTHER -> action

validateAnswer(answer, questionData) ==
  [correct |-> normalizeAction(answer) = normalizeAction(questionData.correctAction),
   correctAnswer |-> questionData.correctAction]

\* Math.round of the non-negative quotient num / den.
round(num, den) == (2 * num + den) \div (2 * den)

\* reset(): the state the constructor and start() begin from.
reset ==
  [active |-> FALSE,
   currentQuestion |-> 0,
   correct |-> 0,
   currentQuestionData |-> <<>>,
   questionTimes |-> <<>>,
   answers |-> <<>>,
   categoryStats |-> <<>>]

getStats(s) ==
  [currentQuestion |-> s.currentQuestion,
   totalQuestions |-> config.totalQuestions,
   correct |-> s.correct,
   total |-> s.currentQuestion,
   accuracy |-> IF s.currentQuestion > 0
                  THEN round(100 * s.correct, s.currentQuestion) ELSE 0]

RECURSIVE sum(_)
sum(seq) == IF seq = <<>> THEN 0 ELSE seq[1] + sum(Tail(seq))

RECURSIVE min(_)
min(seq) ==
  IF Len(seq) = 1 THEN seq[1]
  ELSE LET rest == min(Tail(seq)) IN IF seq[1] < rest THEN seq[1] ELSE rest

\* A variant of finalAccuracy that forgets the factor 100.
finalAccuracyFraction(correct, total) == round(correct, total)

\* accuracy = Math.round((correct / total) * 100)
finalAccuracy(correct, total) == round(100 * correct, total)

\* A variant of avgTime that reports -1 when no time was recorded.
avgTimeOrUnknown(questionTimes) ==
  IF Len(questionTimes) > 0
    THEN sum(questionTimes) \div Len(questionTimes) ELSE 0 - 1

\* const avgTime = questionTimes.length > 0 ? sum / length : 0
avgTime(questionTimes) ==
  IF Len(questionTimes) > 0
    THEN sum(questionTimes) \div Len(questionTimes) ELSE 0

getFinalStats(s) ==
  LET total == config.totalQuestions
      accuracy == finalAccuracy(s.correct, total)
  IN [correct |-> s.correct,
      total |-> total,
      accuracy |-> accuracy,
      avgTime |-> avgTime(s.questionTimes),
      fastestTime |-> IF Len(s.questionTimes) > 0 THEN min(s.questionTimes) ELSE 0,
      passed |-> accuracy >= getScenarioThreshold(config.id)]

\* A variant of answerable that ignores state.active.
answerableWhenInactive(s) == s.currentQuestionData # <<>>

\* The guard of submitAnswer.
answerable(s) == s.active /\ s.currentQuestionData # <<>>

\* A variant of recordAnswer that records the time of a wrong answer twice.
recordAnswerTimedTwice(s, answer, questionTime) ==
  LET questionData == s.currentQuestionData[1]
      validation == validateAnswer(answer, questionData)
      isCorrect == validation.correct
      category == questionData.category
      before == IF category \in DOMAIN s.categoryStats
                  THEN s.categoryStats[category]
                  ELSE [total |-> 0, correct |-> 0]
      after == [total |-> before.total + 1,
                correct |-> before.correct + (IF isCorrect THEN 1 ELSE 0)]
      answerRecord == [questionNumber |-> s.currentQuestion,
                       questionData |-> questionData,
                       playerAnswer |-> answer,
                       correctAnswer |-> validation.correctAnswer,
                       isCorrect |-> isCorrect,
                       time |-> questionTime]
  IN [s EXCEPT
        !.questionTimes = IF isCorrect THEN Append(@, questionTime)
                          ELSE Append(Append(@, questionTime), questionTime),
        !.correct = IF isCorrect THEN @ + 1 ELSE @,
        !.categoryStats = [c \in DOMAIN @ \cup {category} |->
                             IF c = category THEN after ELSE @[c]],
        !.answers = Append(@, answerRecord)]

\* submitAnswer past its guard: the state it leaves and the result it returns.
recordAnswer(s, answer, questionTime) ==
  LET questionData == s.currentQuestionData[1]
      validation == validateAnswer(answer, questionData)
      isCorrect == validation.correct
      category == questionData.category
      before == IF category \in DOMAIN s.categoryStats
                  THEN s.categoryStats[category]
                  ELSE [total |-> 0, correct |-> 0]
      after == [total |-> before.total + 1,
                correct |-> before.correct + (IF isCorrect THEN 1 ELSE 0)]
      answerRecord == [questionNumber |-> s.currentQuestion,
                       questionData |-> questionData,
                       playerAnswer |-> answer,
                       correctAnswer |-> validation.correctAnswer,
                       isCorrect |-> isCorrect,
                       time |-> questionTime]
  IN [s EXCEPT
        !.questionTimes = Append(@, questionTime),
        !.correct = IF isCorrect THEN @ + 1 ELSE @,
        !.categoryStats = [c \in DOMAIN @ \cup {category} |->
                             IF c = category THEN after ELSE @[c]],
        !.answers = Append(@, answerRecord)]

answerResult(s, answer, questionTime) ==
  LET validation == validateAnswer(answer, s.currentQuestionData[1])
  IN [isCorrect |-> validation.correct,
      playerAnswer |-> answer,
      correctAnswer |-> validation.correctAnswer,
      time |-> questionTime,
      stats |-> getStats(recordAnswer(s, answer, questionTime))]

endScenario(s) ==
  LET stats == getFinalStats(s) IN
    /\ state' = [s EXCEPT !.active = FALSE]
    /\ updateScenarioProgress(Progress, config.id, stats)
    /\ ended' = <<[stats |-> stats,
                   passed |-> stats.accuracy >= getScenarioThreshold(config.id),
                   passThreshold |-> getScenarioThreshold(config.id)]>>

\* A variant of nextQuestionFrom that goes on after the session was stopped.
nextQuestionWhenStopped(s) ==
  IF s.currentQuestion >= config.totalQuestions
    THEN endScenario(s) /\ UNCHANGED ops
    ELSE /\ \E questionData \in Questions :
              state' = [s EXCEPT !.currentQuestion = @ + 1,
                                 !.currentQuestionData = <<questionData>>]
         /\ UNCHANGED <<storeVars, ended>>

\* nextQuestion() on the engine state s.
nextQuestionFrom(s) ==
  IF ~s.active
    THEN state' = s /\ UNCHANGED <<storeVars, ended>>
    ELSE IF s.currentQuestion >= config.totalQuestions
      THEN endScenario(s) /\ UNCHANGED ops
      ELSE /\ \E questionData \in Questions :
                state' = [s EXCEPT !.currentQuestion = @ + 1,
                                   !.currentQuestionData = <<questionData>>]
           /\ UNCHANGED <<storeVars, ended>>

start ==
  /\ starts < MaxSessions
  /\ starts' = starts + 1
  /\ nextQuestionFrom([reset EXCEPT !.active = TRUE])
  /\ call' = "start"
  /\ result' = <<>>
  /\ UNCHANGED <<handVars, drillVars>>

stop ==
  /\ state' = [state EXCEPT !.active = FALSE]
  /\ call' = "stop"
  /\ result' = <<>>
  /\ UNCHANGED <<storeVars, ended, starts, handVars, drillVars>>

nextQuestion ==
  /\ nextQuestionFrom(state)
  /\ call' = "nextQuestion"
  /\ result' = <<>>
  /\ UNCHANGED <<starts, handVars, drillVars>>

submitAnswer(answer) ==
  /\ call' = "submitAnswer"
  /\ IF ~answerable(state)
       THEN result' = <<>> /\ UNCHANGED state
       ELSE /\ Len(state.answers) < MaxAnswers
            /\ \E questionTime \in Elapsed :
                 /\ state' = recordAnswer(state, answer, questionTime)
                 /\ result' = <<answerResult(state, answer, questionTime)>>
  /\ UNCHANGED <<storeVars, ended, starts, handVars, drillVars>>

EngineInit ==
  /\ state = reset
  /\ result = <<>>
  /\ ended = <<>>
  /\ call = "constructor"
  /\ starts = 0

\* Before any hand, range or board function was applied.
HandInit ==
  /\ notation = <<>>
  /\ cell = <<>>
  /\ hits = <<>>
  /\ hands = {}
  /\ board = <<>>
  /\ returned = <<>>
  /\ args = <<>>

\* The position-speed drill module as loaded: no drill was started, nothing
\* is scheduled, and the drills hub is on the page.
DrillInit ==
  /\ positionDrill = [currentQuestion |-> 0, correct |-> 0, questionTimes |-> <<>>,
              currentQuestionType |-> Null, correctAnswer |-> Null,
              drillActive |-> FALSE,
              currentStreak |-> 0, bestStreak |-> 0,
              page |-> "hub", options |-> <<>>, disabled |-> FALSE,
              session |-> 0]
  /\ timers = <<>>

---------------------------------------------------------------------------
(* The calls the specifications below are made of *)

\* A store call made while no engine call is running and no hand function is
\* applied.
Idle == UNCHANGED <<engineVars, handVars, drillVars>>

\* One more of at most `limit` recording calls.
Within(limit) == ops < limit /\ ops' = ops + 1 /\ Idle

RecordModule(ids) ==
  LET progress == Progress IN
    \E moduleId \in ids, score \in ScoreInputs :
      completeModule(progress, "foundations", moduleId, score)

AdjustModule(ids) ==
  LET progress == Progress IN
    \E moduleId \in ids, score \in ScoreInputs :
      updateModuleProgress(progress, "foundations", moduleId, [score |-> score])

RecordDrill(ids) ==
  LET progress == Progress IN
    \E drillId \in ids :
      \E stats \in DrillStatsInputs(drillId) : updateDrillProgress(progress, drillId, stats)

RecordScenario(ids) ==
  LET progress == Progress IN
    \E scenarioId \in ids :
      \E stats \in ScenarioStatsInputs(scenarioId) :
        updateScenarioProgress(progress, scenarioId, stats)

vars == <<storeVars, engineVars, handVars, drillVars>>

Init == StoreInit /\ EngineInit /\ HandInit /\ DrillInit

---------------------------------------------------------------------------
(* Spec: every exported writer of the store, with export, import and reset *)

StoreModule == Within(MaxOps) /\ RecordModule(ModuleIds \cup {UnknownId})

StoreAdjust == Within(MaxOps) /\ AdjustModule(ModuleIds \cup {UnknownId})

StoreDrill == Within(MaxOps) /\ RecordDrill(DrillIds \cup {UnknownId})

StoreScenario == Within(MaxOps) /\ RecordScenario(ScenarioIds \cup {UnknownId})

StoreExport == exportProgress /\ UNCHANGED ops /\ Idle

StoreImport == importProgress /\ UNCHANGED ops /\ Idle

StoreReset == resetProgress /\ UNCHANGED ops /\ Idle

Next ==
  \/ StoreModule \/ StoreAdjust \/ StoreDrill \/ StoreScenario
  \/ StoreExport \/ StoreImport \/ StoreReset

Spec == Init /\ [][Next]_vars

---------------------------------------------------------------------------
(* SpecAttempts: drill and scenario attempts recorded from the default progress *)

AttemptDrill == Within(MaxAttempts) /\ RecordDrill(DrillIds)

AttemptScenario == Within(MaxAttempts) /\ RecordScenario(ScenarioIds)

NextAttempts == AttemptDrill \/ AttemptScenario

SpecAttempts == Init /\ [][NextAttempts]_vars

---------------------------------------------------------------------------
(* SpecStages: the sessions that complete a unit, passing exactly at its   *)
(* threshold, recorded from the default progress over all three groups     *)

PassModule ==
  /\ Within(MaxPasses)
  /\ LET progress == Progress IN
       \E moduleId \in ModuleIds :
         /\ ~progress.stages.foundations.modules[moduleId].completed
         /\ completeModule(progress, "foundations", moduleId, 100)

PassDrill ==
  /\ Within(MaxPasses)
  /\ LET progress == Progress IN
       \E drillId \in DrillIds :
         /\ ~progress.stages.drills.modules[drillId].completed
         /\ updateDrillProgress(progress, drillId,
                                [accuracy |-> getDrillThreshold(drillId),
                                 bestStreak |-> 3, avgTime |-> 2500])

PassScenario ==
  /\ Within(MaxPasses)
  /\ LET progress == Progress IN
       \E scenarioId \in ScenarioIds :
         /\ ~progress.stages.scenarios.modules[scenarioId].completed
         /\ updateScenarioProgress(progress, scenarioId,
                                   [accuracy |-> getScenarioThreshold(scenarioId)])

NextStages == PassModule \/ PassDrill \/ PassScenario

SpecStages == Init /\ [][NextStages]_vars

---------------------------------------------------------------------------
(* SpecEngine: the methods of one ScenarioEngine, called in any order *)

EngineSubmit == \E answer \in Decisions : submitAnswer(answer)

NextEngine == start \/ stop \/ nextQuestion \/ EngineSubmit

SpecEngine == Init /\ [][NextEngine]_vars

---------------------------------------------------------------------------
(* Properties of the engine, checked under SpecEngine *)

\* C1: a question is answered at most once.  Once a submitAnswer was accepted
\* for the current question, another submitAnswer made before the next
\* nextQuestion returns null and changes nothing of the engine's state.
C1_OneAnswerPerQuestion ==
  [][(/\ call' = "submitAnswer"
      /\ \E i \in DOMAIN state.answers :
           state.answers[i].questionNumber = state.currentQuestion)
       => (result' = <<>> /\ state' = state)]_vars

\* C2: while the engine is not active (constructed and not started, stopped,
\* or ended) submitAnswer returns null and changes neither the counters, the
\* answer list, the final stats handed out, nor the stored progress.
C2_InactiveSubmitIsNull ==
  [][(call' = "submitAnswer" /\ ~state.active)
       => (result' = <<>> /\ UNCHANGED <<state, ended, localStorage, defaultProgress>>)]_vars

\* A submitAnswer was made after the session had ended with answers recorded.
C2_Witness ==
  /\ call = "submitAnswer"
  /\ ~state.active
  /\ ended # <<>>
  /\ state.answers # <<>>
  /\ result = <<>>

\* C3: nextQuestion called when currentQuestion equals totalQuestions ends
\* the session; the final accuracy is correct / totalQuestions as a percentage
\* (to the nearest integer) and passed is accuracy >= the scenario's
\* threshold.  Fifteen correct answers out of twenty give 75.
C3_LastQuestionEnds ==
  [][(/\ call' = "nextQuestion"
      /\ state.active
      /\ state.currentQuestion = config.totalQuestions)
       => (/\ ~state'.active
           /\ ended' # <<>>
           /\ LET data == ended'[1]
                  total == config.totalQuestions
                  off == data.stats.accuracy * total - 100 * state.correct
              IN /\ data.stats.total = total
                 /\ data.stats.correct = state.correct
                 /\ 2 * off <= total /\ -2 * off <= total
                 /\ data.passed = (data.stats.accuracy >= SCENARIO_THRESHOLDS[config.id])
                 /\ data.stats.passed = data.passed
           /\ finalAccuracy(15, 20) = 75)]_vars

\* A session ended and passed, every question having been answered.
C3_Witness ==
  /\ call = "nextQuestion"
  /\ ~state.active
  /\ ended # <<>>
  /\ ended[1].passed
  /\ ended[1].stats.correct = state.correct
  /\ Len(state.answers) = config.totalQuestions

---------------------------------------------------------------------------
(* Properties of recorded attempts, checked under SpecAttempts *)

\* C4: the drills unlock in their linear order with an inclusive boundary.  A
\* drill after the first is unlocked exactly when an attempt on the drill
\* before it was recorded with accuracy >= that drill's threshold: passing D1
\* unlocks D2 and leaves D3 and D4 locked, completing D2 unlocks D3, and D4
\* stays locked until D3 is completed.
C4_DrillCascade ==
  LET drills == Progress.stages.drills.modules IN
    \A i \in 1..(Len(DRILL_ORDER) - 1) :
      drills[DRILL_ORDER[i + 1]].unlocked
        <=> (\E accuracy \in attempted[DRILL_ORDER[i]] :
               accuracy >= DRILL_THRESHOLDS[DRILL_ORDER[i]])

\* D1 was attempted at exactly its threshold only, D2 is completed, D3 is
\* unlocked and D4 is still locked.
C4_Witness ==
  LET drills == Progress.stages.drills.modules IN
    /\ attempted[DRILL_ORDER[1]] = {DRILL_THRESHOLDS[DRILL_ORDER[1]]}
    /\ drills[DRILL_ORDER[1]].completed
    /\ drills[DRILL_ORDER[2]].unlocked /\ drills[DRILL_ORDER[2]].completed
    /\ drills[DRILL_ORDER[3]].unlocked /\ ~drills[DRILL_ORDER[3]].completed
    /\ ~drills[DRILL_ORDER[4]].unlocked

\* C5: starting from the default progress, after any sequence of recorded
\* scenario attempts the cold-4bet scenario is unlocked if and only if at
\* least two of the four Tier-1 scenarios are completed with a score >= 75.
C5_Cold4betUnlock ==
  LET scenarios == Progress.stages.scenarios.modules IN
    scenarios["cold-4bet"].unlocked
      <=> Cardinality({id \in Range(TIER_1_SCENARIOS) :
                         scenarios[id].completed /\ scenarios[id].bestScore >= 75}) >= 2

\* cold-4bet is unlocked with exactly two Tier-1 scenarios completed.
C5_Witness ==
  LET scenarios == Progress.stages.scenarios.modules IN
    /\ scenarios["cold-4bet"].unlocked
    /\ Cardinality({id \in Range(TIER_1_SCENARIOS) : scenarios[id].completed}) = 2
    /\ Cardinality({id \in Range(TIER_1_SCENARIOS) : attempted[id] # {}}) = 2

\* C9: the bestScore of every drill and scenario is the maximum accuracy among
\* the attempts recorded for it, and 0 when none was recorded.
C9_BestScoreIsMax ==
  LET stages == Progress.stages IN
    \A id \in DrillIds \cup ScenarioIds :
      LET unit == IF id \in DrillIds THEN stages.drills.modules[id]
                                     ELSE stages.scenarios.modules[id]
      IN /\ \A accuracy \in attempted[id] : unit.bestScore >= accuracy
         /\ unit.bestScore \in attempted[id] \cup {0}
         /\ attempted[id] = {} => unit.bestScore = 0

\* A drill that was attempted with two or more different accuracies.
C9_Witness ==
  \E id \in DrillIds :
    /\ Cardinality(attempted[id]) >= 2
    /\ Progress.stages.drills.modules[id].attempts >= 2
    /\ Progress.stages.drills.modules[id].bestScore = 100

\* C10: the achievement predicates are evaluated after every recorded
\* attempt, whether or not the attempt newly completed the unit: once a drill
\* attempt with accuracy 100 is recorded the drills hold "perfect-run", and
\* once a scenario attempt with accuracy 100 is recorded the scenarios hold
\* "perfect-decisions".
C10_AchievementsAfterEveryAttempt ==
  LET stages == Progress.stages IN
    /\ (\E id \in DrillIds : 100 \in attempted[id])
         => includes(stages.drills.achievements, "perfect-run")
    /\ (\E id \in ScenarioIds : 100 \in attempted[id])
         => includes(stages.scenarios.achievements, "perfect-decisions")

---------------------------------------------------------------------------
(* Properties of the stages, checked under SpecStages *)

---------------------------------------------------------------------------
(* Properties of the store, checked under Spec *)

\* C7: in every reachable state of the store a completed unit is unlocked,
\* for every module, drill and scenario.
C7_CompletedImpliesUnlocked ==
  LET stages == Progress.stages IN
    \A stage \in {"foundations", "drills", "scenarios"} :
      \A id \in DOMAIN stages[stage].modules :
        stages[stage].modules[id].completed => stages[stage].modules[id].unlocked

\* C8: completed never reverts to false: no recorded attempt, module update
\* or import turns a completed unit into one that is not completed; only a
\* full reset does.
C8_CompletedIsMonotonic ==
  [][localStorage' # <<>> =>
       \A stage \in {"foundations", "drills", "scenarios"} :
         \A id \in DOMAIN Progress.stages[stage].modules :
           Progress.stages[stage].modules[id].completed
             => Progress'.stages[stage].modules[id].completed]_vars

\* C11: after a full reset every record read back from the store equals its
\* initial default (completed false, bestScore 0, attempts 0, unlocked as in
\* the default tree), whatever store operations preceded the reset.  The key
\* is absent exactly at the start and after resetProgress.
C11_ResetRestoresDefaults ==
  localStorage = <<>> =>
    \A stage \in {"foundations", "drills", "scenarios"} :
      \A id \in DOMAIN DEFAULT_PROGRESS.stages[stage].modules :
        Progress.stages[stage].modules[id] = DEFAULT_PROGRESS.stages[stage].modules[id]

---------------------------------------------------------------------------
(* SpecFaults: the store's writers and readers on a storage that fails *)

\* The text under the key is damaged: JSON.parse will throw on it.
Corrupt ==
  /\ localStorage # <<>>
  /\ "unparsable" \notin fault
  /\ fault' = fault \cup {"unparsable"}
  /\ UNCHANGED <<localStorage, defaultProgress, backup, ret, attempted, ops>>
  /\ Idle

\* The storage quota is used up: setItem will throw.
Exhaust ==
  /\ "quota" \notin fault
  /\ fault' = fault \cup {"quota"}
  /\ UNCHANGED <<localStorage, defaultProgress, backup, ret, attempted, ops>>
  /\ Idle

FaultModule == Within(MaxFaultOps) /\ RecordModule(ModuleIds)

\* Attempts on the first drill.
FaultDrill == Within(MaxFaultOps) /\ RecordDrill({DRILL_ORDER[1]})

\* Attempts on the scenario the engine above runs.
FaultScenario == Within(MaxFaultOps) /\ RecordScenario({SCENARIO_ID})

NextFaults == Corrupt \/ Exhaust \/ FaultModule \/ FaultDrill \/ FaultScenario

SpecFaults == Init /\ [][NextFaults]_vars

---------------------------------------------------------------------------
(* SpecMerge: documents of an older shape, lacking a unit or a field, are *)
(* stored and loaded among recorded drill attempts                         *)

\* The object f without its key.
omit(f, key) == [k \in DOMAIN f \ {key} |-> f[k]]

\* The documents an older version would have written for the progress doc:
\* one drill is missing, or one field of one drill is.
OlderDocuments(doc) ==
  LET drills == doc.stages.drills.modules IN
    {[doc EXCEPT !.stages.drills.modules = omit(drills, id)] : id \in DOMAIN drills}
      \cup UNION {{[doc EXCEPT !.stages.drills.modules[id] = omit(drills[id], field)] :
                      field \in {"completed", "bestStreak"} \cap DOMAIN drills[id]} :
                    id \in DOMAIN drills}

MergeDrill == Within(MaxMergeOps) /\ RecordDrill(DrillIds)

MergeOlder ==
  /\ Within(MaxMergeOps)
  /\ \E doc \in OlderDocuments(Progress) : importDocument(doc)

NextMerge == MergeDrill \/ MergeOlder

SpecMerge == Init /\ [][NextMerge]_vars

\* C13: loading a stored document that lacks some units or fields returns a
\* tree in which every value present in the stored document is preserved and
\* every missing unit or field carries its default, the defaults being those
\* of a fresh default tree that earlier store operations did not affect.
C13_MergeOverFreshDefaults ==
  localStorage # <<>> =>
    LET stored == localStorage[1].stages
        fresh == DEFAULT_PROGRESS.stages
    IN \A stage \in {"foundations", "drills", "scenarios"} :
         \A id \in DOMAIN fresh[stage].modules :
           \A field \in DOMAIN fresh[stage].modules[id] :
             Progress.stages[stage].modules[id][field] =
               IF id \in DOMAIN stored[stage].modules
                    /\ field \in DOMAIN stored[stage].modules[id]
                 THEN stored[stage].modules[id][field]
                 ELSE fresh[stage].modules[id][field]


---------------------------------------------------------------------------
(* Ended and stopped sessions *)

\* The attempts recorded in the store for the engine's scenario.
recordedAttempts == Progress.stages.scenarios.modules[config.id].attempts

\* C14: an attempt is written exactly when a session ends, once: the
\* nextQuestion call made on an active session that is past its last question
\* adds one attempt, deactivates the session and produces the end event; no
\* other call, stop() included, changes the store or produces an end event,
\* and nextQuestion on a session that is not active leaves the state alone.
C14_AttemptOnlyWhenEnded ==
  [][LET ends == /\ call' = "nextQuestion"
                 /\ state.active
                 /\ state.currentQuestion >= config.totalQuestions
     IN /\ ends => /\ recordedAttempts' = recordedAttempts + 1
                   /\ ~state'.active
                   /\ ended' # <<>>
        /\ ~ends => UNCHANGED <<localStorage, defaultProgress, ended>>
        /\ (call' = "nextQuestion" /\ ~state.active) => state' = state]_vars

\* A session stopped on its last question, answered, and asked for the next
\* question: nothing was written and no end event was produced.
C14_Witness ==
  /\ call = "nextQuestion"
  /\ ~state.active
  /\ state.currentQuestion = config.totalQuestions
  /\ state.answers # <<>>
  /\ ended = <<>>
  /\ localStorage = <<>>

\* C15: as long as no answer was accepted since the session started, the
\* final statistics are defined and their average time and fastest time are 0.
C15_NoAnswersAverageIsZero ==
  state.answers = <<>> =>
    /\ getFinalStats(state).avgTime = 0
    /\ getFinalStats(state).fastestTime = 0
    /\ getFinalStats(state).correct = 0

\* A session stopped on a question before any answer was accepted.
C15_Witness ==
  /\ call = "stop"
  /\ ~state.active
  /\ state.currentQuestion >= 1
  /\ state.answers = <<>>

---------------------------------------------------------------------------
(* Hand notation (data/hands.js) *)

RANKS == <<"A", "K", "Q", "J", "T", "9", "8", "7", "6", "5", "4", "3", "2">>

\* String.prototype.toUpperCase on one character of the alphabet used here.
toUpperCase(ch) ==
  CASE ch = "a" -> "A" [] ch = "k" -> "K" [] ch = "q" -> "Q" [] ch = "j" -> "J"
    [] ch = "t" -> "T" [] ch = "s" -> "S" [] ch = "o" -> "O" [] ch = "x" -> "X"
    [] OTHER -> ch

\* String.prototype.toLowerCase on one character of the alphabet used here.
toLowerCase(ch) ==
  CASE ch = "A" -> "a" [] ch = "K" -> "k" [] ch = "Q" -> "q" [] ch = "J" -> "j"
    [] ch = "T" -> "t" [] ch = "S" -> "s" [] ch = "O" -> "o" [] ch = "X" -> "x"
    [] OTHER -> ch

\* notation[2]?.toLowerCase(): <<>> when the notation has no third character.
suffixOf(n) == IF Len(n) >= 3 THEN <<toLowerCase(n[3])>> ELSE <<>>

\* A variant of higherRankSecond that never asks for the ranks to be swapped.
neverReordered(r1, r2) == FALSE

\* if (r1 > r2): the first rank stands later in RANKS than the second.
higherRankSecond(r1, r2) == r1 > r2

\* normalizeHand on a notation of at least two characters; null for "".
normalizeHand(n) ==
  IF n = <<>> THEN Null
  ELSE
    LET upper1 == toUpperCase(n[1])
        upper2 == toUpperCase(n[2])
        suffix == suffixOf(n)
        r1 == indexOf(RANKS, upper1)
        r2 == indexOf(RANKS, upper2)
        rank1 == IF higherRankSecond(r1, r2) THEN upper2 ELSE upper1
        rank2 == IF higherRankSecond(r1, r2) THEN upper1 ELSE upper2
    IN IF rank1 = rank2
         THEN <<rank1, rank2>>
         ELSE <<rank1, rank2>> \o (IF suffix # <<>> THEN suffix ELSE <<"o">>)

\* The letters a valid notation may use for a rank, in either case.
RankLetters == Range(RANKS) \cup {toLowerCase(RANKS[i]) : i \in 1..Len(RANKS)}

\* The valid notations: two rank letters and an optional suited/offsuit letter.
Notations ==
  {<<a, b>> : a \in RankLetters, b \in RankLetters}
    \cup {<<a, b, c>> : a \in RankLetters, b \in RankLetters, c \in {"s", "o", "S", "O"}}

\* The same notation with its two ranks in the other order.
reordered(n) == <<n[2], n[1]>> \o SubSeq(n, 3, Len(n))

\* Leaves everything but the notation and the returned value alone.
HandCall == UNCHANGED <<sessionVars, args, cell, hits, hands, board>>

\* normalizeHand applied to a first notation.
NormalizeHand ==
  /\ notation = <<>>
  /\ \E n \in Notations : notation' = n /\ returned' = <<normalizeHand(n)>>
  /\ HandCall

\* normalizeHand applied to what normalizeHand returned.
Renormalize ==
  /\ returned # <<>>
  /\ notation' = returned[1]
  /\ returned' = <<normalizeHand(returned[1])>>
  /\ HandCall

\* normalizeHand applied to the last notation with its ranks exchanged.
NormalizeReordered ==
  /\ notation # <<>>
  /\ notation' = reordered(notation)
  /\ returned' = <<normalizeHand(reordered(notation))>>
  /\ HandCall

NextNormalize == NormalizeHand \/ Renormalize \/ NormalizeReordered

SpecNormalize == Init /\ [][NextNormalize]_vars

\* C16: normalizing a normalized notation returns it unchanged; a valid
\* notation and the same notation with its ranks in the other order normalize
\* to the same string; that string has the higher rank first, no suffix for
\* a pair and the suffix s or o otherwise; "KAs" and "AKs" both give "AKs".
C16_NormalizeIsCanonical ==
  [][/\ (returned # <<>> /\ notation' = returned[1]) => returned' = returned
     /\ (notation # <<>> /\ notation' = reordered(notation)) => returned' = returned
     /\ LET canonical == returned'[1] IN
          /\ indexOf(RANKS, canonical[1]) >= 0
          /\ indexOf(RANKS, canonical[1]) <= indexOf(RANKS, canonical[2])
          /\ IF canonical[1] = canonical[2]
               THEN Len(canonical) = 2
               ELSE Len(canonical) = 3 /\ canonical[3] \in {"s", "o"}
     /\ notation' \in {<<"K", "A", "s">>, <<"A", "K", "s">>}
          => returned' = << <<"A", "K", "s">> >>]_vars

\* "KAs" was normalized and gave "AKs".
C16_Witness ==
  notation = <<"K", "A", "s">> /\ returned = << <<"A", "K", "s">> >>

---------------------------------------------------------------------------
(* The 169 starting hands and the 13 x 13 grid (data/hands.js) *)

\* The hands the inner loop of generateAllHands pushes for row i from
\* column j on, 0-based.
RECURSIVE innerLoop(_, _)
innerLoop(i, j) ==
  IF j >= Len(RANKS) THEN <<>>
  ELSE (IF i = j
          THEN << <<RANKS[i + 1], RANKS[j + 1]>> >>
          ELSE << <<RANKS[i + 1], RANKS[j + 1], "s">>,
                  <<RANKS[i + 1], RANKS[j + 1], "o">> >>)
         \o innerLoop(i, j + 1)

\* The hands the outer loop of generateAllHands pushes from row i on.
RECURSIVE outerLoop(_)
outerLoop(i) ==
  IF i >= Len(RANKS) THEN <<>> ELSE innerLoop(i, i) \o outerLoop(i + 1)

generateAllHands == outerLoop(0)

ALL_HANDS == generateAllHands

\* parseHand: <<>> for null, else <<hand>>.
parseHand(n) ==
  IF Len(n) < 2 THEN <<>>
  ELSE
    LET rank1 == toUpperCase(n[1])
        rank2 == toUpperCase(n[2])
        suffix == suffixOf(n)
    IN <<[rank1 |-> rank1,
          rank2 |-> rank2,
          suited |-> suffix = <<"s">>,
          offsuit |-> suffix = <<"o">>,
          pair |-> rank1 = rank2,
          notation |-> IF rank1 = rank2
                         THEN <<rank1, rank2>>
                         ELSE <<rank1, rank2>> \o (IF suffix # <<>> THEN suffix ELSE <<"o">>)]>>

\* A variant of getHandFromGrid with the suited hands below the diagonal.
getHandFromGridTransposed(row, col) ==
  LET rank1 == RANKS[row + 1]
      rank2 == RANKS[col + 1]
  IN IF row = col THEN <<rank1, rank2>>
     ELSE IF row < col THEN <<rank1, rank2, "o">>
     ELSE <<rank2, rank1, "s">>

getHandFromGrid(row, col) ==
  LET rank1 == RANKS[row + 1]
      rank2 == RANKS[col + 1]
  IN IF row = col THEN <<rank1, rank2>>
     ELSE IF row < col THEN <<rank1, rank2, "s">>
     ELSE <<rank2, rank1, "o">>

\* Math.min and Math.max of two numbers.
mathMin(a, b) == IF a < b THEN a ELSE b
mathMax(a, b) == IF a > b THEN a ELSE b

\* getGridPosition: <<>> for null, else <<[row, col]>>.
getGridPosition(n) ==
  LET parsedHand == parseHand(n) IN
    IF parsedHand = <<>> THEN <<>>
    ELSE
      LET hand == parsedHand[1]
          row == indexOf(RANKS, hand.rank1)
          col == indexOf(RANKS, hand.rank2)
      IN IF hand.pair THEN <<[row |-> row, col |-> row]>>
         ELSE IF hand.suited
           THEN <<[row |-> mathMin(row, col), col |-> mathMax(row, col)]>>
           ELSE <<[row |-> mathMax(row, col), col |-> mathMin(row, col)]>>

\* The rows, and the columns, of the grid.
GridIndex == 0..(Len(RANKS) - 1)

\* getHandFromGrid(row, col) on some cell of the grid.
HandFromGrid ==
  /\ \E row \in GridIndex, col \in GridIndex :
       /\ cell' = <<[row |-> row, col |-> col]>>
       /\ notation' = getHandFromGrid(row, col)
  /\ returned' = <<>>
  /\ UNCHANGED <<sessionVars, args, hits, hands, board>>

\* getGridPosition applied to the hand getHandFromGrid returned.
GridPosition ==
  /\ cell # <<>>
  /\ returned = <<>>
  /\ returned' = <<getGridPosition(notation)>>
  /\ UNCHANGED <<sessionVars, args, notation, cell, hits, hands, board>>

\* The grid position of every hand of ALL_HANDS, in the order of ALL_HANDS.
GridPositionOfAllHands ==
  /\ hits = <<>>
  /\ hits' = [i \in 1..Len(ALL_HANDS) |-> getGridPosition(ALL_HANDS[i])]
  /\ UNCHANGED <<sessionVars, args, notation, cell, hands, board, returned>>

NextGrid == HandFromGrid \/ GridPosition \/ GridPositionOfAllHands

SpecGrid == Init /\ [][NextGrid]_vars

\* C17: getGridPosition applied to getHandFromGrid(row, col) returns
\* (row, col) for every cell of the 13 x 13 grid, and the 169 hands of
\* ALL_HANDS have grid positions that cover the grid, each cell exactly once.
C17_GridBijection ==
  [][/\ returned' # <<>> => returned'[1] = cell'
     /\ hits' # hits =>
          /\ Len(hits') = Len(RANKS) * Len(RANKS)
          /\ \A row \in GridIndex, col \in GridIndex :
               Cardinality({i \in 1..Len(hits') :
                              hits'[i] = <<[row |-> row, col |-> col]>>}) = 1]_vars

\* The cell of A2o, bottom left, came back from its hand, and ALL_HANDS was
\* laid on the grid.
C17_Witness ==
  /\ cell = <<[row |-> Len(RANKS) - 1, col |-> 0]>>
  /\ notation = <<"A", "2", "o">>
  /\ returned = <<cell>>
  /\ hits # <<>>

---------------------------------------------------------------------------
(* parseHand on arbitrary short strings *)

\* Characters a caller may type: the ranks, and letters that are no rank.
TypedCharacters == Range(RANKS) \cup {"X", "x", "s", "o"}

\* The strings handed to parseHand: up to three typed characters.
TypedStrings ==
  {<<>>}
    \cup {<<a>> : a \in TypedCharacters}
    \cup {<<a, b>> : a \in TypedCharacters, b \in TypedCharacters}
    \cup {<<a, b, c>> : a \in TypedCharacters, b \in TypedCharacters, c \in {"s", "o", "x"}}

\* parseHand applied to a first string.
ParseHand ==
  /\ returned = <<>>
  /\ \E n \in TypedStrings : notation' = n /\ returned' = <<parseHand(n)>>
  /\ HandCall

NextParse == ParseHand

SpecParse == Init /\ [][NextParse]_vars

\* C18: parseHand yields no hand (null) whenever one of the first two
\* characters of the notation is not, in either case, one of the 13 rank
\* letters.
C18_InvalidRanksFail ==
  (/\ returned # <<>>
   /\ Len(notation) >= 2
   /\ \E i \in 1..2 : toUpperCase(notation[i]) \notin Range(RANKS))
    => returned[1] = <<>>

---------------------------------------------------------------------------
(* Range percentages (data/ranges.js, components/RangeGrid.js) *)

\* A percentage is held in tenths of a percent, the unit of toFixed(1).

OPENING_RANGES ==
  [UTG |->
    {<<"A", "A">>, <<"K", "K">>, <<"Q", "Q">>, <<"J", "J">>, <<"T", "T">>,
     <<"9", "9">>, <<"8", "8">>, <<"7", "7">>, <<"A", "K", "s">>,
     <<"A", "Q", "s">>, <<"A", "J", "s">>, <<"A", "T", "s">>,
     <<"K", "Q", "s">>, <<"K", "J", "s">>, <<"Q", "J", "s">>,
     <<"J", "T", "s">>, <<"A", "K", "o">>, <<"A", "Q", "o">>,
     <<"A", "J", "o">>, <<"K", "Q", "o">>},
   MP |->
    {<<"A", "A">>, <<"K", "K">>, <<"Q", "Q">>, <<"J", "J">>, <<"T", "T">>,
     <<"9", "9">>, <<"8", "8">>, <<"7", "7">>, <<"6", "6">>,
     <<"A", "K", "s">>, <<"A", "Q", "s">>, <<"A", "J", "s">>,
     <<"A", "T", "s">>, <<"A", "9", "s">>, <<"K", "Q", "s">>,
     <<"K", "J", "s">>, <<"K", "T", "s">>, <<"Q", "J", "s">>,
     <<"Q", "T", "s">>, <<"J", "T", "s">>, <<"T", "9", "s">>,
     <<"A", "K", "o">>, <<"A", "Q", "o">>, <<"A", "J", "o">>,
     <<"A", "T", "o">>, <<"K", "Q", "o">>, <<"K", "J", "o">>},
   CO |->
    {<<"A", "A">>, <<"K", "K">>, <<"Q", "Q">>, <<"J", "J">>, <<"T", "T">>,
     <<"9", "9">>, <<"8", "8">>, <<"7", "7">>, <<"6", "6">>, <<"5", "5">>,
     <<"4", "4">>, <<"A", "K", "s">>, <<"A", "Q", "s">>, <<"A", "J", "s">>,
     <<"A", "T", "s">>, <<"A", "9", "s">>, <<"A", "8", "s">>,
     <<"A", "7", "s">>, <<"A", "6", "s">>, <<"A", "5", "s">>,
     <<"A", "4", "s">>, <<"A", "3", "s">>, <<"A", "2", "s">>,
     <<"K", "Q", "s">>, <<"K", "J", "s">>, <<"K", "T", "s">>,
     <<"K", "9", "s">>, <<"K", "8", "s">>, <<"K", "7", "s">>,
     <<"Q", "J", "s">>, <<"Q", "T", "s">>, <<"Q", "9", "s">>,
     <<"J", "T", "s">>, <<"T", "9", "s">>, <<"9", "8", "s">>,
     <<"8", "7", "s">>, <<"7", "6", "s">>, <<"6", "5", "s">>,
     <<"A", "K", "o">>, <<"A", "Q", "o">>, <<"A", "J", "o">>,
     <<"A", "T", "o">>, <<"A", "9", "o">>, <<"K", "Q", "o">>,
     <<"K", "J", "o">>, <<"K", "T", "o">>, <<"Q", "J", "o">>,
     <<"Q", "T", "o">>, <<"J", "T", "o">>},
   BTN |->
    {<<"A", "A">>, <<"K", "K">>, <<"Q", "Q">>, <<"J", "J">>, <<"T", "T">>,
     <<"9", "9">>, <<"8", "8">>, <<"7", "7">>, <<"6", "6">>, <<"5", "5">>,
     <<"4", "4">>, <<"3", "3">>, <<"2", "2">>, <<"A", "K", "s">>,
     <<"A", "Q", "s">>, <<"A", "J", "s">>, <<"A", "T", "s">>,
     <<"A", "9", "s">>, <<"A", "8", "s">>, <<"A", "7", "s">>,
     <<"A", "6", "s">>, <<"A", "5", "s">>, <<"A", "4", "s">>,
     <<"A", "3", "s">>, <<"A", "2", "s">>, <<"K", "Q", "s">>,
     <<"K", "J", "s">>, <<"K", "T", "s">>, <<"K", "9", "s">>,
     <<"K", "8", "s">>, <<"K", "7", "s">>, <<"K", "6", "s">>,
     <<"K", "5", "s">>, <<"K", "4", "s">>, <<"K", "3", "s">>,
     <<"K", "2", "s">>, <<"Q", "J", "s">>, <<"Q", "T", "s">>,
     <<"Q", "9", "s">>, <<"Q", "8", "s">>, <<"Q", "7", "s">>,
     <<"Q", "6", "s">>, <<"J", "T", "s">>, <<"J", "9", "s">>,
     <<"J", "8", "s">>, <<"J", "7", "s">>, <<"T", "9", "s">>,
     <<"T", "8", "s">>, <<"T", "7", "s">>, <<"9", "8", "s">>,
     <<"9", "7", "s">>, <<"9", "6", "s">>, <<"8", "7", "s">>,
     <<"8", "6", "s">>, <<"7", "6", "s">>, <<"7", "5", "s">>,
     <<"6", "5", "s">>, <<"6", "4", "s">>, <<"5", "4", "s">>,
     <<"5", "3", "s">>, <<"4", "3", "s">>, <<"A", "K", "o">>,
     <<"A", "Q", "o">>, <<"A", "J", "o">>, <<"A", "T", "o">>,
     <<"A", "9", "o">>, <<"A", "8", "o">>, <<"A", "7", "o">>,
     <<"A", "6", "o">>, <<"A", "5", "o">>, <<"A", "4", "o">>,
     <<"A", "3", "o">>, <<"A", "2", "o">>, <<"K", "Q", "o">>,
     <<"K", "J", "o">>, <<"K", "T", "o">>, <<"K", "9", "o">>,
     <<"K", "8", "o">>, <<"Q", "J", "o">>, <<"Q", "T", "o">>,
     <<"Q", "9", "o">>, <<"J", "T", "o">>, <<"J", "9", "o">>,
     <<"T", "9", "o">>, <<"T", "8", "o">>, <<"9", "8", "o">>,
     <<"8", "7", "o">>},
   SB |->
    {<<"A", "A">>, <<"K", "K">>, <<"Q", "Q">>, <<"J", "J">>, <<"T", "T">>,
     <<"9", "9">>, <<"8", "8">>, <<"7", "7">>, <<"6", "6">>, <<"5", "5">>,
     <<"4", "4">>, <<"3", "3">>, <<"2", "2">>, <<"A", "K", "s">>,
     <<"A", "Q", "s">>, <<"A", "J", "s">>, <<"A", "T", "s">>,
     <<"A", "9", "s">>, <<"A", "8", "s">>, <<"A", "7", "s">>,
     <<"A", "6", "s">>, <<"A", "5", "s">>, <<"A", "4", "s">>,
     <<"A", "3", "s">>, <<"A", "2", "s">>, <<"K", "Q", "s">>,
     <<"K", "J", "s">>, <<"K", "T", "s">>, <<"K", "9", "s">>,
     <<"K", "8", "s">>, <<"K", "7", "s">>, <<"K", "6", "s">>,
     <<"K", "5", "s">>, <<"K", "4", "s">>, <<"Q", "J", "s">>,
     <<"Q", "T", "s">>, <<"Q", "9", "s">>, <<"Q", "8", "s">>,
     <<"Q", "7", "s">>, <<"J", "T", "s">>, <<"J", "9", "s">>,
     <<"J", "8", "s">>, <<"T", "9", "s">>, <<"T", "8", "s">>,
     <<"9", "8", "s">>, <<"9", "7", "s">>, <<"8", "7", "s">>,
     <<"8", "6", "s">>, <<"7", "6", "s">>, <<"7", "5", "s">>,
     <<"6", "5", "s">>, <<"6", "4", "s">>, <<"5", "4", "s">>,
     <<"A", "K", "o">>, <<"A", "Q", "o">>, <<"A", "J", "o">>,
     <<"A", "T", "o">>, <<"A", "9", "o">>, <<"A", "8", "o">>,
     <<"A", "7", "o">>, <<"A", "6", "o">>, <<"A", "5", "o">>,
     <<"K", "Q", "o">>, <<"K", "J", "o">>, <<"K", "T", "o">>,
     <<"K", "9", "o">>, <<"Q", "J", "o">>, <<"Q", "T", "o">>,
     <<"Q", "9", "o">>, <<"J", "T", "o">>, <<"J", "9", "o">>,
     <<"T", "9", "o">>, <<"9", "8", "o">>},
   BB |-> {}]

\* (num / den).toFixed(1), in tenths.
toFixed1(num, den) == round(10 * num, den)

\* getRangePercentage: 0 for a position without a range.
getRangePercentage(position) ==
  IF position \in DOMAIN OPENING_RANGES
    THEN toFixed1(Cardinality(OPENING_RANGES[position]) * 100, 169)
    ELSE 0

\* getRangeStats on a range given as the set of its elements.
getRangeStats(range) ==
  LET uniqueHands == {normalizeHand(h) : h \in range}
      pairs == Cardinality({hand \in uniqueHands : Len(hand) = 2})
      suited == Cardinality({hand \in uniqueHands :
                               Len(hand) # 2 /\ hand[Len(hand)] = "s"})
      offsuit == Cardinality(uniqueHands) - pairs - suited
      totalCombos == (pairs * 6) + (suited * 4) + (offsuit * 12)
  IN [hands |-> Cardinality(uniqueHands),
      pairs |-> pairs,
      suited |-> suited,
      offsuit |-> offsuit,
      combos |-> totalCombos,
      percentage |-> toFixed1(totalCombos * 100, 1326)]

\* Hands a user may have selected on the grid or typed, not all canonical.
SelectedHands ==
  {<<"A", "A">>, <<"7", "7">>, <<"A", "K", "s">>, <<"K", "A", "s">>,
   <<"A", "K", "o">>, <<"T", "9", "s">>, <<"7", "2", "o">>}

\* getRangePercentage for some position: the percentage shown for its range.
RangePercentage ==
  /\ \E position \in DOMAIN OPENING_RANGES :
       /\ hands' = OPENING_RANGES[position]
       /\ returned' = <<getRangePercentage(position)>>
  /\ UNCHANGED <<sessionVars, args, notation, cell, hits, board>>

\* getRangeStats for some selection: the percentage it reports.
RangeStats ==
  /\ \E range \in SUBSET SelectedHands :
       /\ hands' = range
       /\ returned' = <<getRangeStats(range).percentage>>
  /\ UNCHANGED <<sessionVars, args, notation, cell, hits, board>>

NextRanges == RangePercentage \/ RangeStats

SpecRanges == Init /\ [][NextRanges]_vars

\* The number of two-card combinations of a canonical hand.
combosOfHand(hand) ==
  IF Len(hand) = 2 THEN 6 ELSE IF hand[3] = "s" THEN 4 ELSE 12

RECURSIVE combosOfRange(_)
combosOfRange(range) ==
  IF range = {} THEN 0
  ELSE LET hand == CHOOSE h \in range : TRUE
       IN combosOfHand(hand) + combosOfRange(range \ {hand})

\* C19: the percentage reported for a set of hands is the number of its
\* combinations (6 for a pair, 4 for a suited hand, 12 for an offsuit hand)
\* over 1326, as a percentage to one decimal.
C19_PercentageIsComboWeighted ==
  returned # <<>> =>
    returned[1] = toFixed1(combosOfRange({normalizeHand(h) : h \in hands}) * 100, 1326)

---------------------------------------------------------------------------
(* Board texture (scenarios/postflopBoardTexture.js) *)

SUITS == <<"h", "d", "c", "s">>

\* parseInt of a rank that is a digit.
parseInt(rank) ==
  CASE rank = "9" -> 9 [] rank = "8" -> 8 [] rank = "7" -> 7 [] rank = "6" -> 6
    [] rank = "5" -> 5 [] rank = "4" -> 4 [] rank = "3" -> 3 [] rank = "2" -> 2

\* getRankValue: A = 14, K = 13, ..., 2 = 2.
getRankValue(rank) ==
  CASE rank = "A" -> 14 [] rank = "K" -> 13 [] rank = "Q" -> 12
    [] rank = "J" -> 11 [] rank = "T" -> 10 [] OTHER -> parseInt(rank)

\* seq with x inserted before its first element greater than x.
RECURSIVE insertAscending(_, _)
insertAscending(seq, x) ==
  IF seq = <<>> THEN <<x>>
  ELSE IF x < seq[1] THEN <<x>> \o seq
  ELSE <<seq[1]>> \o insertAscending(Tail(seq), x)

\* Array.prototype.sort((a, b) => a - b)
RECURSIVE sortAscending(_)
sortAscending(seq) ==
  IF seq = <<>> THEN <<>>
  ELSE insertAscending(sortAscending(Tail(seq)), seq[1])

\* A variant of isConnected that is content with one small gap.
isConnectedByOneGap(gaps) == \E i \in 1..Len(gaps) : gaps[i] <= 2

\* gaps.every(g => g <= 2)
isConnected(gaps) == \A i \in 1..Len(gaps) : gaps[i] <= 2

analyzeBoardTexture(cards) ==
  IF Len(cards) < 3 THEN "unknown"
  ELSE
    LET suits == [i \in 1..Len(cards) |-> cards[i].suit]
        ranks == [i \in 1..Len(cards) |-> cards[i].rank]
        rankValues == sortAscending([i \in 1..Len(ranks) |-> getRankValue(ranks[i])])
        suitCounts == [s \in Range(suits) |->
                         Cardinality({i \in 1..Len(suits) : suits[i] = s})]
        hasTwoTone == \E s \in DOMAIN suitCounts : suitCounts[s] = 2
        gaps == [i \in 1..(Len(rankValues) - 1) |-> rankValues[i + 1] - rankValues[i]]
    IN IF suits[1] = suits[2] /\ suits[2] = suits[3] THEN "monotone"
       ELSE IF ranks[1] = ranks[2] \/ ranks[2] = ranks[3] \/ ranks[1] = ranks[3]
         THEN "paired"
       ELSE IF hasTwoTone \/ isConnected(gaps) THEN "wet"
       ELSE "dry"

\* The 52 cards.
Cards == {[rank |-> RANKS[i], suit |-> SUITS[j]] : i \in 1..Len(RANKS), j \in 1..Len(SUITS)}

\* analyzeBoardTexture applied to a first flop.
AnalyzeBoard ==
  /\ board = <<>>
  /\ \E a \in Cards :
       \E b \in Cards \ {a} :
       \E c \in Cards \ {a, b} :
         /\ board' = <<a, b, c>>
         /\ returned' = <<analyzeBoardTexture(<<a, b, c>>)>>
  /\ UNCHANGED <<sessionVars, args, notation, cell, hits, hands>>

NextBoards == AnalyzeBoard

SpecBoards == Init /\ [][NextBoards]_vars

\* The texture the rule of C20 gives a three-card board.
textureByRule(cards) ==
  LET suits == {cards[i].suit : i \in 1..3}
      values == {getRankValue(cards[i].rank) : i \in 1..3}
      lowest == CHOOSE v \in values : \A w \in values : v <= w
  IN IF Cardinality(suits) = 1 THEN "monotone"
     ELSE IF \E i, j \in 1..3 : i # j /\ cards[i].rank = cards[j].rank THEN "paired"
     ELSE IF \/ Cardinality(suits) = 2
             \/ \A v \in values \ {lowest} : \E w \in values : w < v /\ v - w <= 2
       THEN "wet"
     ELSE "dry"

\* C20: for every three-card board analyzeBoardTexture returns monotone if
\* the three suits are equal; else paired if two ranks are equal; else wet if
\* exactly two cards share a suit or no gap between adjacent sorted ranks
\* exceeds 2; else dry.  Kh 7d 2c is dry, Jh Th 9c is wet, Kc Kd 4s is paired
\* and 9h 6h 3h is monotone.
C20_TextureFollowsRule ==
  returned # <<>> =>
    /\ returned[1] = textureByRule(board)
    /\ board = <<[rank |-> "K", suit |-> "h"], [rank |-> "7", suit |-> "d"],
                 [rank |-> "2", suit |-> "c"]>> => returned[1] = "dry"
    /\ board = <<[rank |-> "J", suit |-> "h"], [rank |-> "T", suit |-> "h"],
                 [rank |-> "9", suit |-> "c"]>> => returned[1] = "wet"
    /\ board = <<[rank |-> "K", suit |-> "c"], [rank |-> "K", suit |-> "d"],
                 [rank |-> "4", suit |-> "s"]>> => returned[1] = "paired"
    /\ board = <<[rank |-> "9", suit |-> "h"], [rank |-> "6", suit |-> "h"],
                 [rank |-> "3", suit |-> "h"]>> => returned[1] = "monotone"

\* A rainbow board that is connected: wet by its ranks alone.
C20_Witness ==
  /\ board = <<[rank |-> "J", suit |-> "h"], [rank |-> "T", suit |-> "d"],
               [rank |-> "9", suit |-> "c"]>>
  /\ returned = <<"wet">>

---------------------------------------------------------------------------
(* Scenario ranges (data/scenarioRanges.js) *)

\* A hand notation in these ranges is a string: the code only compares it.

DEFEND_VS_3BET ==
  [CO_vs_BTN |->
     [fourBet |-> <<"AA", "KK", "QQ", "AKs", "AKo">>,
      call |-> <<"JJ", "TT", "99", "AQs", "AJs", "ATs", "KQs", "KJs", "QJs", "JTs",
           "AQo">>,
      fold |-> "everything else"],
   CO_vs_SB |->
     [fourBet |-> <<"AA", "KK", "QQ", "AKs", "AKo">>,
      call |-> <<"JJ", "TT", "99", "AQs", "AJs", "ATs", "KQs", "QJs", "JTs", "AQo">>,
      fold |-> "everything else"],
   CO_vs_BB |->
     [fourBet |-> <<"AA", "KK", "QQ", "AKs", "AKo">>,
      call |-> <<"JJ", "TT", "99", "88", "AQs", "AJs", "ATs", "A9s", "KQs", "KJs",
           "QJs", "JTs", "T9s", "AQo", "AJo">>,
      fold |-> "everything else"],
   BTN_vs_SB |->
     [fourBet |-> <<"AA", "KK", "QQ", "AKs", "AKo">>,
      call |-> <<"JJ", "TT", "99", "88", "AQs", "AJs", "ATs", "A9s", "A8s", "KQs",
           "KJs", "KTs", "QJs", "QTs", "JTs", "J9s", "T9s", "AQo", "AJo",
           "KQo">>,
      fold |-> "everything else"],
   BTN_vs_BB |->
     [fourBet |-> <<"AA", "KK", "QQ", "AKs", "AKo">>,
      call |-> <<"JJ", "TT", "99", "88", "77", "AQs", "AJs", "ATs", "A9s", "A8s",
           "A7s", "KQs", "KJs", "KTs", "K9s", "QJs", "QTs", "JTs", "J9s",
           "T9s", "T8s", "98s", "AQo", "AJo", "ATo", "KQo", "KJo">>,
      fold |-> "everything else"],
   MP_vs_CO |->
     [fourBet |-> <<"AA", "KK", "QQ", "AKs">>,
      call |-> <<"JJ", "TT", "AQs", "AJs", "KQs", "AKo">>,
      fold |-> "everything else"],
   UTG_vs_MP |->
     [fourBet |-> <<"AA", "KK">>,
      call |-> <<"QQ", "JJ", "AKs", "AQs", "AKo">>,
      fold |-> "everything else"]]

BB_DEFENSE ==
  [vs_BTN |->
     [threeBet |-> <<"AA", "KK", "QQ", "JJ", "AKs", "AQs", "AJs", "AKo", "AQo", "A5s",
           "A4s", "A3s", "A2s">>,
      call |-> <<"TT", "99", "88", "77", "66", "55", "44", "33", "22", "ATs",
           "A9s", "A8s", "A7s", "A6s", "KQs", "KJs", "KTs", "K9s", "K8s",
           "K7s", "QJs", "QTs", "Q9s", "Q8s", "JTs", "J9s", "J8s", "T9s",
           "T8s", "98s", "97s", "87s", "86s", "76s", "75s", "65s", "64s",
           "54s", "53s", "43s", "AJo", "ATo", "A9o", "KQo", "KJo", "KTo",
           "QJo", "QTo", "JTo">>,
      fold |-> "everything else"],
   vs_CO |->
     [threeBet |-> <<"AA", "KK", "QQ", "JJ", "AKs", "AQs", "AKo", "A5s", "A4s">>,
      call |-> <<"TT", "99", "88", "77", "66", "55", "AJs", "ATs", "A9s", "A8s",
           "KQs", "KJs", "KTs", "K9s", "QJs", "QTs", "Q9s", "JTs", "J9s",
           "T9s", "T8s", "98s", "97s", "87s", "86s", "76s", "75s", "65s",
           "54s", "AQo", "AJo", "ATo", "KQo", "KJo", "QJo">>,
      fold |-> "everything else"],
   vs_MP |->
     [threeBet |-> <<"AA", "KK", "QQ", "AKs", "AQs", "AKo", "A5s">>,
      call |-> <<"JJ", "TT", "99", "88", "77", "AJs", "ATs", "A9s", "KQs", "KJs",
           "KTs", "QJs", "QTs", "JTs", "J9s", "T9s", "98s", "87s", "76s",
           "65s", "AQo", "AJo", "KQo">>,
      fold |-> "everything else"],
   vs_UTG |->
     [threeBet |-> <<"AA", "KK", "QQ", "AKs">>,
      call |-> <<"JJ", "TT", "99", "88", "77", "AQs", "AJs", "ATs", "KQs", "KJs",
           "QJs", "JTs", "T9s", "98s", "87s", "76s", "AQo", "AJo", "KQo">>,
      fold |-> "everything else"],
   vs_SB |->
     [threeBet |-> <<"AA", "KK", "QQ", "JJ", "TT", "AKs", "AQs", "AJs", "ATs", "AKo",
           "AQo", "A5s", "A4s", "A3s", "A2s", "K9s", "Q9s", "J9s">>,
      call |-> <<"99", "88", "77", "66", "55", "44", "33", "22", "A9s", "A8s",
           "A7s", "A6s", "KQs", "KJs", "KTs", "K8s", "K7s", "K6s", "K5s",
           "K4s", "QJs", "QTs", "Q8s", "JTs", "J8s", "T9s", "T8s", "T7s",
           "98s", "97s", "96s", "87s", "86s", "85s", "76s", "75s", "74s",
           "65s", "64s", "54s", "53s", "43s", "AJo", "ATo", "A9o", "A8o",
           "KJo", "KTo", "K9o", "QJo", "QTo", "JTo", "J9o", "T9o">>,
      fold |-> "everything else"]]

\* A variant of VALUE_3BET that lists A5s of CO_vs_EP as a value 3-bet too.
VALUE_3BET_A5sTwice ==
  [universal |-> <<"AA", "KK", "QQ", "AKs", "AKo">>,
   BB_vs_steal |->
     [value3bet |-> <<"AA", "KK", "QQ", "JJ", "AKs", "AQs", "AJs", "AKo", "AQo">>,
      bluff3bet |-> <<"A5s", "A4s", "A3s", "A2s">>],
   SB_vs_BTN |->
     [value3bet |-> <<"AA", "KK", "QQ", "JJ", "TT", "AKs", "AQs", "AJs", "AKo", "AQo">>,
      bluff3bet |-> <<"A5s", "A4s", "A3s", "A2s", "K5s", "K4s">>],
   CO_vs_EP |->
     [value3bet |-> <<"AA", "KK", "QQ", "AKs", "AKo", "A5s">>,
      bluff3bet |-> <<"A5s", "A4s">>],
   BTN_vs_open |->
     [value3bet |-> <<"AA", "KK", "QQ", "JJ", "AKs", "AQs", "AKo", "AQo">>,
      bluff3bet |-> <<"A5s", "A4s", "A3s", "K5s", "Q5s">>]]

VALUE_3BET ==
  [universal |-> <<"AA", "KK", "QQ", "AKs", "AKo">>,
   BB_vs_steal |->
     [value3bet |-> <<"AA", "KK", "QQ", "JJ", "AKs", "AQs", "AJs", "AKo", "AQo">>,
      bluff3bet |-> <<"A5s", "A4s", "A3s", "A2s">>],
   SB_vs_BTN |->
     [value3bet |-> <<"AA", "KK", "QQ", "JJ", "TT", "AKs", "AQs", "AJs", "AKo", "AQo">>,
      bluff3bet |-> <<"A5s", "A4s", "A3s", "A2s", "K5s", "K4s">>],
   CO_vs_EP |->
     [value3bet |-> <<"AA", "KK", "QQ", "AKs", "AKo">>,
      bluff3bet |-> <<"A5s", "A4s">>],
   BTN_vs_open |->
     [value3bet |-> <<"AA", "KK", "QQ", "JJ", "AKs", "AQs", "AKo", "AQo">>,
      bluff3bet |-> <<"A5s", "A4s", "A3s", "K5s", "Q5s">>]]

SB_3BET_OR_FOLD ==
  [vs_BTN |->
     [threeBet |-> <<"AA", "KK", "QQ", "JJ", "TT", "99", "AKs", "AQs", "AJs", "ATs",
           "AKo", "AQo", "AJo", "KQs", "KJs", "A5s", "A4s", "A3s", "A2s",
           "K5s", "K4s">>,
      fold |-> "everything else"],
   vs_CO |->
     [threeBet |-> <<"AA", "KK", "QQ", "JJ", "TT", "AKs", "AQs", "AJs", "AKo", "AQo",
           "KQs", "A5s", "A4s">>,
      fold |-> "everything else"],
   vs_MP |->
     [threeBet |-> <<"AA", "KK", "QQ", "JJ", "AKs", "AQs", "AKo", "A5s">>,
      fold |-> "everything else"],
   vs_UTG |->
     [threeBet |-> <<"AA", "KK", "QQ", "AKs", "AKo">>,
      fold |-> "everything else"]]

\* The JavaScript string made of the characters of a notation.
RECURSIVE text(_)
text(chars) == IF chars = <<>> THEN "" ELSE chars[1] \o text(Tail(chars))

\* The 169 canonical hand notations, as strings.
HandStrings == {text(ALL_HANDS[i]) : i \in 1..Len(ALL_HANDS)}

\* The four families of curated scenario ranges, by their exported names.
ScenarioRanges ==
  [DEFEND_VS_3BET |-> DEFEND_VS_3BET,
   BB_DEFENSE |-> BB_DEFENSE,
   VALUE_3BET |-> VALUE_3BET,
   SB_3BET_OR_FOLD |-> SB_3BET_OR_FOLD]

\* The matchups of a family: its keys that hold range data.
Matchups(family) == DOMAIN ScenarioRanges[family] \ {"universal"}

\* The action buckets of a matchup: its keys that hold arrays of hands.
Buckets(rangeData) == DOMAIN rangeData \ {"fold"}

\* isHandInRange on an array.
isHandInRange(hand, range) == includes(range, hand)

\* `rangeData.bucket && isHandInRange(hand, rangeData.bucket)`
listedIn(hand, rangeData, bucket) ==
  bucket \in DOMAIN rangeData /\ isHandInRange(hand, rangeData[bucket])

\* A variant of getCorrectAction that looks at the call bucket first.
getCorrectActionCallFirst(hand, rangeData) ==
  IF listedIn(hand, rangeData, "call") THEN "Call"
  ELSE IF listedIn(hand, rangeData, "fourBet") THEN "4-bet"
  ELSE IF listedIn(hand, rangeData, "threeBet") THEN "3-bet"
  ELSE "Fold"

getCorrectAction(hand, rangeData) ==
  IF listedIn(hand, rangeData, "fourBet") THEN "4-bet"
  ELSE IF listedIn(hand, rangeData, "threeBet") THEN "3-bet"
  ELSE IF listedIn(hand, rangeData, "call") THEN "Call"
  ELSE "Fold"

\* Leaves everything but the arguments and the returned value alone.
DataCall == UNCHANGED <<sessionVars, notation, cell, hits, hands, board>>

\* getCorrectAction for a hand and a matchup of the curated ranges.
CuratedAction ==
  /\ args = <<>>
  /\ \E family \in DOMAIN ScenarioRanges :
       \E spot \in Matchups(family), hand \in HandStrings :
         /\ args' = <<[family |-> family, spot |-> spot, hand |-> hand,
                       rangeData |-> ScenarioRanges[family][spot]]>>
         /\ returned' = <<getCorrectAction(hand, ScenarioRanges[family][spot])>>
  /\ DataCall

NextCurated == CuratedAction

SpecCurated == Init /\ [][NextCurated]_vars

\* C21: in every matchup of the four curated families no hand is listed in
\* two different action buckets.
C21_BucketsAreExclusive ==
  args # <<>> =>
    LET rangeData == args[1].rangeData IN
      \A b1 \in Buckets(rangeData), b2 \in Buckets(rangeData) :
        b1 # b2 => Range(rangeData[b1]) \cap Range(rangeData[b2]) = {}

\* A5s was looked up in CO_vs_EP of VALUE_3BET, which lists it as a bluff.
C21_Witness ==
  /\ args # <<>>
  /\ args[1].family = "VALUE_3BET"
  /\ args[1].spot = "CO_vs_EP"
  /\ args[1].hand = "A5s"
  /\ includes(args[1].rangeData.bluff3bet, "A5s")

---------------------------------------------------------------------------
(* getCorrectAction on arbitrary range data *)

\* Arrays of hands a bucket may hold.
BucketArrays == {<<>>, <<"AA">>, <<"AKs">>, <<"AA", "AKs">>}

\* Range data with any of the three buckets getCorrectAction reads, each
\* holding any of the arrays above: buckets may overlap.
AnyRangeData ==
  UNION {[present -> BucketArrays] : present \in SUBSET {"fourBet", "threeBet", "call"}}

\* getCorrectAction for a hand and some range data.
AnyAction ==
  /\ args = <<>>
  /\ \E rangeData \in AnyRangeData, hand \in {"AA", "AKs", "72o"} :
       /\ args' = <<[hand |-> hand, rangeData |-> rangeData]>>
       /\ returned' = <<getCorrectAction(hand, rangeData)>>
  /\ DataCall

NextBuckets == AnyAction

SpecBuckets == Init /\ [][NextBuckets]_vars

\* The hand looked up is listed in this bucket of the range data looked up.
Listed(bucket) ==
  /\ bucket \in DOMAIN args[1].rangeData
  /\ args[1].hand \in Range(args[1].rangeData[bucket])

\* C22: the action returned is 4-bet exactly when the hand is listed in the
\* 4-bet bucket, 3-bet exactly when it is listed in the 3-bet bucket and not
\* in the 4-bet bucket, Call exactly when it is listed in the call bucket and
\* in neither of the other two, and Fold exactly when it is listed in none.
C22_FirstBucketInPriority ==
  args # <<>> =>
    /\ returned[1] \in {"4-bet", "3-bet", "Call", "Fold"}
    /\ returned[1] = "4-bet" <=> Listed("fourBet")
    /\ returned[1] = "3-bet" <=> ~Listed("fourBet") /\ Listed("threeBet")
    /\ returned[1] = "Call" <=>
         ~Listed("fourBet") /\ ~Listed("threeBet") /\ Listed("call")
    /\ returned[1] = "Fold" <=>
         ~Listed("fourBet") /\ ~Listed("threeBet") /\ ~Listed("call")

\* A hand listed in the 4-bet bucket and in the call bucket got 4-bet.
C22_Witness ==
  /\ args # <<>>
  /\ Listed("fourBet")
  /\ Listed("call")
  /\ returned = <<"4-bet">>

---------------------------------------------------------------------------
(* Advancing and answering *)

\* The answer records of the engine state s for question number q.
answersTo(s, q) == {i \in 1..Len(s.answers) : s.answers[i].questionNumber = q}

\* C23: a nextQuestion call changes the engine state (advances to a new
\* question or ends the session) only when the current question has an
\* answer record, and when it ends the session there is exactly one answer
\* record for each question number 1..totalQuestions.
C23_AdvanceOnlyAfterAnswer ==
  [][(call' = "nextQuestion" /\ state' # state) =>
       /\ answersTo(state, state.currentQuestion) # {}
       /\ ~state'.active =>
            \A q \in 1..config.totalQuestions : Cardinality(answersTo(state', q)) = 1]_vars

---------------------------------------------------------------------------
(* Unlock queries of the store *)

\* isStageUnlocked on the loaded tree.
isStageUnlocked(progress, stage) ==
  stage \in DOMAIN progress.stages /\ progress.stages[stage].unlocked

\* checkScenariosUnlock on the loaded tree: at least three drills with a best
\* score of 80 or more, or completed.
checkScenariosUnlock(progress) ==
  LET drillData == progress.stages.drills
      qualifyingDrills ==
        {i \in 1..Len(DRILL_ORDER) :
           /\ DRILL_ORDER[i] \in DOMAIN drillData.modules
           /\ \/ drillData.modules[DRILL_ORDER[i]].bestScore >= 80
              \/ drillData.modules[DRILL_ORDER[i]].completed}
  IN Cardinality(qualifyingDrills) >= 3

\* C24: whenever at least three drills have a best score of 80 or more or
\* are completed, the scenarios stage is unlocked.
C24_ThreeDrillsUnlockScenarios ==
  checkScenariosUnlock(Progress) => isStageUnlocked(Progress, "scenarios")


\* isDrillUnlocked on the loaded tree.
isDrillUnlocked(progress, drillId) ==
  /\ drillId \in DOMAIN progress.stages.drills.modules
  /\ progress.stages.drills.modules[drillId].unlocked

\* isScenarioUnlocked on the loaded tree.
isScenarioUnlocked(progress, scenarioId) ==
  IF ~progress.stages.scenarios.unlocked THEN FALSE
  ELSE /\ scenarioId \in DOMAIN progress.stages.scenarios.modules
       /\ progress.stages.scenarios.modules[scenarioId].unlocked

\* C25: a drill is reported unlocked only if the drills stage is unlocked, as
\* a scenario is reported unlocked only if the scenarios stage is.
C25_DrillNeedsItsStage ==
  /\ \A scenarioId \in ScenarioIds :
       isScenarioUnlocked(Progress, scenarioId) => isStageUnlocked(Progress, "scenarios")
  /\ \A drillId \in DrillIds :
       isDrillUnlocked(Progress, drillId) => isStageUnlocked(Progress, "drills")

---------------------------------------------------------------------------
(* The position-speed positionDrill: its questions, its session and the callbacks   *)
(* it schedules                                                             *)

DRILL_ID == "position-speed"

\* The length of a drill session; 15 in the source.
TOTAL_QUESTIONS == 4

\* How many times the drill is started.
MaxDrillSessions == 2

PASS_THRESHOLD == getDrillThreshold(DRILL_ID)

POSITIONS == <<"UTG", "MP", "CO", "BTN", "SB", "BB">>

PREFLOP_ORDER == <<"UTG", "MP", "CO", "BTN", "SB", "BB">>

POSTFLOP_ORDER == <<"SB", "BB", "UTG", "MP", "CO", "BTN">>

\* Position advantage, in tenths: 'SB': 0.5 is 5 and 'BB': 0.7 is 7.
POSITION_VALUE ==
  [UTG |-> 10, MP |-> 20, CO |-> 30, BTN |-> 40, SB |-> 5, BB |-> 7]

QUESTION_TYPES ==
  <<"preflop_first", "postflop_first", "has_position", "best_position", "opening_wider">>

\* The positions the 'opening_wider' case draws from (not BB).
openingPositions == <<"UTG", "MP", "CO", "BTN", "SB">>

\* POSITION_VALUE[pos1] > POSITION_VALUE[pos2] ? pos1 : pos2
higherPositionValue(pos1, pos2) ==
  IF POSITION_VALUE[pos1] > POSITION_VALUE[pos2] THEN pos1 ELSE pos2

\* The body of generateQuestion once its random numbers are drawn: the type,
\* the two positions (op1 and op2 in the 'opening_wider' case) and whether
\* the options are exchanged.
questionFor(type, pos1, pos2, shuffle) ==
  LET question ==
        CASE type = "preflop_first"  -> "Who acts FIRST preflop?"
          [] type = "postflop_first" -> "Who acts FIRST postflop?"
          [] type = "has_position"   -> "Who has POSITION (acts last)?"
          [] type = "best_position"  -> "Which is the BETTER position?"
          [] type = "opening_wider"  -> "Which position opens WIDER?"
      correctPosition ==
        CASE type = "preflop_first" ->
               IF indexOf(PREFLOP_ORDER, pos1) < indexOf(PREFLOP_ORDER, pos2)
                 THEN pos1 ELSE pos2
          [] type = "postflop_first" ->
               IF indexOf(POSTFLOP_ORDER, pos1) < indexOf(POSTFLOP_ORDER, pos2)
                 THEN pos1 ELSE pos2
          [] type = "has_position"  -> higherPositionValue(pos1, pos2)
          [] type = "best_position" -> higherPositionValue(pos1, pos2)
          [] type = "opening_wider" -> higherPositionValue(pos1, pos2)
  IN [question |-> question,
      options |-> IF shuffle THEN <<pos2, pos1>> ELSE <<pos1, pos2>>,
      correct |-> correctPosition,
      type |-> type]

\* The array the two positions of a question of the type are drawn from.
drawnFrom(type) == IF type = "opening_wider" THEN openingPositions ELSE POSITIONS

\* generateQuestion(): every question its random draws can produce.
generateQuestion ==
  UNION {UNION {{questionFor(type, pos1, pos2, shuffle) :
                   pos2 \in Range(drawnFrom(type)) \ {pos1}, shuffle \in BOOLEAN} :
                pos1 \in Range(drawnFrom(type))} :
         type \in Range(QUESTION_TYPES)}

\* getDrillProgress(drillId)
getDrillProgress(progress, drillId) ==
  IF drillId \in DOMAIN progress.stages.drills.modules
    THEN <<progress.stages.drills.modules[drillId]>>
    ELSE <<>>

\* A step of the drill's page that calls no engine method and applies no
\* hand function.
DrillStep == UNCHANGED <<ops, engineVars, handVars>>

\* The array `timers` without its i-th entry: the callback that is run.
withoutTimer(i) == [j \in 1..(Len(timers) - 1) |-> IF j < i THEN timers[j] ELSE timers[j + 1]]

\* renderPositionDrill(container): the drill's route is opened from the hub,
\* or again from the results or the locked page.
renderPositionDrill ==
  /\ positionDrill.page \in {"hub", "results", "locked"}
  /\ positionDrill' = [positionDrill EXCEPT !.page = IF isDrillUnlocked(Progress, DRILL_ID)
                                       THEN "start" ELSE "locked"]
  /\ UNCHANGED <<storeVars, timers>>
  /\ DrillStep

\* startDrill(): the click on 'Start Drill'; showCountdown schedules the
\* callback that shows the first question.
startDrill ==
  /\ positionDrill.page = "start"
  /\ positionDrill.session < MaxDrillSessions
  /\ LET previousBest == getDrillProgress(Progress, DRILL_ID) IN
       positionDrill' = [positionDrill EXCEPT !.currentQuestion = 0,
                              !.correct = 0,
                              !.questionTimes = <<>>,
                              !.drillActive = TRUE,
                              !.currentStreak = 0,
                              !.bestStreak = IF previousBest = <<>> THEN 0
                                             ELSE previousBest[1].bestStreak,
                              !.page = "drill",
                              !.options = <<>>,
                              !.disabled = FALSE,
                              !.session = @ + 1]
  /\ timers' = Append(timers, [callback |-> "countdown", session |-> positionDrill.session + 1])
  /\ UNCHANGED storeVars
  /\ DrillStep

\* endDrill(), in the drill state d: the attempt is saved and the results
\* replace the page.
endDrill(d) ==
  LET accuracy == (d.correct * 100) \div TOTAL_QUESTIONS
      stats == [accuracy |-> accuracy,
                avgTime |-> sum(d.questionTimes) \div Len(d.questionTimes),
                bestStreak |-> d.bestStreak,
                passed |-> accuracy >= PASS_THRESHOLD]
  IN /\ positionDrill' = [d EXCEPT !.drillActive = FALSE, !.page = "results",
                           !.options = <<>>, !.disabled = FALSE]
     /\ updateDrillProgress(Progress, DRILL_ID, stats)

\* showNextQuestion(), in the drill state d.  Off the drill's page
\* getElementById returns null and the function throws after the increment.
showNextQuestion(d) ==
  IF d.currentQuestion >= TOTAL_QUESTIONS
    THEN endDrill(d)
    ELSE /\ IF d.page = "drill"
              THEN \E q \in generateQuestion :
                     positionDrill' = [d EXCEPT !.currentQuestion = @ + 1,
                                        !.currentQuestionType = q.type,
                                        !.correctAnswer = q.correct,
                                        !.options = q.options,
                                        !.disabled = FALSE]
              ELSE positionDrill' = [d EXCEPT !.currentQuestion = @ + 1]
         /\ UNCHANGED storeVars

\* The callback startDrill handed to showCountdown, run when the countdown
\* is over: timer.start(); showNextQuestion().
countdownOver ==
  /\ \E i \in 1..Len(timers) :
       /\ timers[i].callback = "countdown"
       /\ timers' = withoutTimer(i)
       /\ showNextQuestion(positionDrill)
  /\ DrillStep

\* handleAnswer(answer): the click on one of the enabled option buttons.
handleAnswer(answer) ==
  /\ positionDrill.page = "drill"
  /\ includes(positionDrill.options, answer)
  /\ ~positionDrill.disabled
  /\ IF ~positionDrill.drillActive
       THEN UNCHANGED <<positionDrill, timers>>
       ELSE \E questionTime \in Elapsed :
              LET isCorrect == answer = positionDrill.correctAnswer
                  streak == positionDrill.currentStreak + 1
              IN /\ positionDrill' = [positionDrill EXCEPT
                        !.questionTimes = Append(@, questionTime),
                        !.disabled = TRUE,
                        !.correct = IF isCorrect THEN @ + 1 ELSE @,
                        !.currentStreak = IF isCorrect THEN streak ELSE 0,
                        !.bestStreak = IF isCorrect /\ streak > @ THEN streak ELSE @]
                 /\ timers' = Append(timers, [callback |-> "advance",
                                              session |-> positionDrill.session])
  /\ UNCHANGED storeVars
  /\ DrillStep

\* The callback handleAnswer handed to setTimeout, run when its delay is
\* over: if (drillActive) showNextQuestion().
autoAdvance ==
  /\ \E i \in 1..Len(timers) :
       /\ timers[i].callback = "advance"
       /\ timers' = withoutTimer(i)
       /\ IF positionDrill.drillActive
            THEN showNextQuestion(positionDrill)
            ELSE UNCHANGED <<positionDrill, storeVars>>
  /\ DrillStep

\* quitDrill(): the click on 'Quit'; the hash change brings the hub back.
quitDrill ==
  /\ positionDrill.page = "drill"
  /\ positionDrill' = [positionDrill EXCEPT !.drillActive = FALSE, !.page = "hub",
                            !.options = <<>>, !.disabled = FALSE]
  /\ UNCHANGED <<storeVars, timers>>
  /\ DrillStep

\* A session of one of the drills before position-speed in DRILL_ORDER,
\* played from the hub once it is unlocked and passed at its threshold.
playEarlierDrill ==
  /\ positionDrill.page = "hub"
  /\ LET progress == Progress IN
       \E drillId \in DrillIds \ {DRILL_ID} :
         /\ isDrillUnlocked(progress, drillId)
         /\ ~progress.stages.drills.modules[drillId].completed
         /\ updateDrillProgress(progress, drillId,
                                [accuracy |-> getDrillThreshold(drillId),
                                 bestStreak |-> 3, avgTime |-> 2500])
  /\ UNCHANGED drillVars
  /\ DrillStep

DrillAnswer == \E answer \in Range(POSITIONS) : handleAnswer(answer)

NextDrill ==
  \/ playEarlierDrill \/ renderPositionDrill \/ startDrill \/ countdownOver
  \/ DrillAnswer \/ autoAdvance \/ quitDrill

SpecDrill == Init /\ [][NextDrill]_vars

\* C26: a delayed auto-advance scheduled by an answer of one drill session
\* never advances the question counter of, or ends, a session started after
\* that one was quit: when the callback of an earlier session runs, the
\* current session's question counter and its active flag stay as they were.
C26_StaleAdvanceIsHarmless ==
  [][\A i \in 1..Len(timers) :
       (/\ timers' = withoutTimer(i)
        /\ timers[i].callback = "advance"
        /\ timers[i].session # positionDrill.session)
         => (/\ positionDrill'.currentQuestion = positionDrill.currentQuestion
             /\ positionDrill'.drillActive = positionDrill.drillActive)]_vars

---------------------------------------------------------------------------
(* SpecQuestions: generateQuestion of the position-speed drill, called once *)

\* POSITIONS of modules/handStrength.js: the openingPercent of each position.
openingPercent ==
  [UTG |-> 15, MP |-> 18, CO |-> 27, BTN |-> 42, SB |-> 36, BB |-> 0]

GenerateQuestion ==
  /\ args = <<>>
  /\ \E q \in generateQuestion :
       /\ args' = <<[call |-> "generateQuestion"]>>
       /\ returned' = <<q>>
  /\ DataCall

NextQuestions == GenerateQuestion

SpecQuestions == Init /\ [][NextQuestions]_vars

\* C29: for a 'Which position opens WIDER?' question the answer marked
\* correct is, of the two positions offered, the one with the larger opening
\* range: no offered position has a higher openingPercent than the correct one.
C29_WiderIsLargerOpeningRange ==
  (args # <<>> /\ returned[1].type = "opening_wider")
    => \A pos \in Range(returned[1].options) :
         openingPercent[pos] <= openingPercent[returned[1].correct]

---------------------------------------------------------------------------
(* SpecValueQuestions: generateQuestion of the 3-bet-for-value scenario,    *)
(* called once                                                              *)

\* SPOTS of the scenario; openSize in tenths of a big blind.
SPOTS ==
  <<[hero |-> "BB", opener |-> "BTN", key |-> "BB_vs_steal", openSize |-> 25],
    [hero |-> "BB", opener |-> "CO", key |-> "BB_vs_steal", openSize |-> 25],
    [hero |-> "SB", opener |-> "BTN", key |-> "SB_vs_BTN", openSize |-> 25],
    [hero |-> "CO", opener |-> "UTG", key |-> "CO_vs_EP", openSize |-> 25],
    [hero |-> "CO", opener |-> "MP", key |-> "CO_vs_EP", openSize |-> 25],
    [hero |-> "BTN", opener |-> "CO", key |-> "BTN_vs_open", openSize |-> 25],
    [hero |-> "BTN", opener |-> "MP", key |-> "BTN_vs_open", openSize |-> 25]>>

getCallHands(spot) ==
  <<"TT", "99", "88", "77", "66",
    "AJs", "ATs", "A9s",
    "KQs", "KJs", "KTs",
    "QJs", "QTs",
    "JTs", "J9s",
    "T9s", "T8s",
    "98s", "97s",
    "87s", "86s",
    "76s",
    "AQo", "AJo", "ATo",
    "KQo", "KJo">>

getFoldHands ==
  <<"K8o", "K7o", "K6o", "K5o",
    "Q9o", "Q8o", "Q7o",
    "J8o", "J7o", "J6o",
    "T7o", "T6o",
    "96o", "95o",
    "85o", "84o",
    "74o", "73o",
    "63o", "62o",
    "52o", "53o",
    "42o", "43o",
    "K6s", "K5s", "K4s",
    "Q6s", "Q5s", "Q4s",
    "J6s", "J5s",
    "T5s", "T4s",
    "94s", "93s",
    "84s", "83s",
    "55", "44", "33", "22">>

\* Math.random() of generateQuestion in hundredths: one value below 0.35, one
\* from 0.35 up to 0.55, one from 0.55 up.
Rolls == {20, 45, 80}

\* The hands generateQuestion picks from, and the action it marks correct,
\* for the spot and the roll.
branchOf(spot, roll) ==
  LET rangeData == VALUE_3BET[spot.key] IN
    IF roll < 35 /\ Len(rangeData.value3bet) > 0
      THEN [hands |-> rangeData.value3bet, correctAction |-> "3-bet"]
      ELSE IF roll < 55
        THEN [hands |-> getCallHands(spot), correctAction |-> "Call"]
        ELSE [hands |-> getFoldHands, correctAction |-> "Fold"]

\* The question generateQuestion returns once spot, roll and hand are drawn;
\* potSize and effectiveStack in tenths of a big blind.
questionDataOf(spot, roll, hand) ==
  [spot |-> spot,
   hand |-> hand,
   rangeData |-> VALUE_3BET[spot.key],
   correctAction |-> branchOf(spot, roll).correctAction,
   potSize |-> spot.openSize + 5 + 10,
   effectiveStack |-> IF spot.hero = "BB" THEN 990
                      ELSE IF spot.hero = "SB" THEN 995 ELSE 1000,
   category |-> spot.key]

\* generateQuestion(state) of the 3-bet-for-value scenario: every question
\* its random draws can produce.
generateValueQuestion ==
  UNION {{questionDataOf(sr[1], sr[2], hand) : hand \in Range(branchOf(sr[1], sr[2]).hands)} :
         sr \in Range(SPOTS) \X Rolls}

GenerateValueQuestion ==
  /\ args = <<>>
  /\ \E questionData \in generateValueQuestion :
       /\ args' = <<[call |-> "generateQuestion"]>>
       /\ returned' = <<questionData>>
  /\ DataCall

NextValueQuestions == GenerateValueQuestion

SpecValueQuestions == Init /\ [][NextValueQuestions]_vars

\* C27: the action marked correct for a generated question of the
\* 3-bet-for-value scenario is a function of the spot and the hand alone
\* (no other question generateQuestion can produce has the same spot and hand
\* with another correct action), and a hand listed in the spot's value3bet or
\* bluff3bet list is never marked Call or Fold.
C27_CorrectActionFollowsRangeData ==
  args # <<>> =>
    LET q == returned[1] IN
      /\ \A other \in generateValueQuestion :
           (other.spot = q.spot /\ other.hand = q.hand)
             => other.correctAction = q.correctAction
      /\ (\/ isHandInRange(q.hand, q.rangeData.value3bet)
          \/ isHandInRange(q.hand, q.rangeData.bluff3bet))
           => q.correctAction \notin {"Call", "Fold"}

---------------------------------------------------------------------------
(* The board classifier of components/BoardDisplay.js *)

\* rankToValue(rank): values[rank] || 0
rankToValue(rank) ==
  CASE rank = "A" -> 14 [] rank = "K" -> 13 [] rank = "Q" -> 12
    [] rank = "J" -> 11 [] rank = "T" -> 10
    [] rank \in {"9", "8", "7", "6", "5", "4", "3", "2"} -> parseInt(rank)
    [] OTHER -> 0

\* analyzeBoardTexture(cards) of components/BoardDisplay.js.
analyzeBoardTextureOfBoardDisplay(cards) ==
  IF Len(cards) < 3 THEN "unknown"
  ELSE
    LET flop == SubSeq(cards, 1, 3)
        suits == [i \in 1..3 |-> flop[i].suit]
        ranks == [i \in 1..3 |-> flop[i].rank]
        uniqueRanks == Range(ranks)
        rankValues == sortAscending([i \in 1..3 |-> rankToValue(ranks[i])])
        totalGap == rankValues[3] - rankValues[1]
        suitCounts == [s \in Range(suits) |->
                         Cardinality({i \in 1..3 : suits[i] = s})]
        isTwoTone == \E s \in DOMAIN suitCounts : suitCounts[s] = 2
    IN IF \A i \in 1..3 : suits[i] = suits[1] THEN "monotone"
       ELSE IF Cardinality(uniqueRanks) < 3 THEN "paired"
       ELSE IF totalGap <= 4 \/ (isTwoTone /\ totalGap <= 6) THEN "wet"
       ELSE "dry"

\* C28: the classifier of scenarioRanges.js and the classifier of
\* BoardDisplay.js return the same label for every three-card board.
C28_ClassifiersAgree ==
  board # <<>> => analyzeBoardTextureOfBoardDisplay(board) = returned[1]

---------------------------------------------------------------------------
(* The engine's counters, checked under SpecEngine *)

\* The sum of the field (total or correct) over the categories of categoryStats.
RECURSIVE categorySum(_, _, _)
categorySum(categoryStats, categories, field) ==
  IF categories = {} THEN 0
  ELSE LET category == CHOOSE c \in categories : TRUE
       IN categoryStats[category][field]
            + categorySum(categoryStats, categories \ {category}, field)

\* C30: at every point of a session the totals of the categories add up to
\* the number of answer records, which is the number of question times, and
\* the correct counters of the categories add up to the aggregate correct
\* counter.
C30_CountersAgree ==
  /\ categorySum(state.categoryStats, DOMAIN state.categoryStats, "total")
       = Len(state.answers)
  /\ Len(state.answers) = Len(state.questionTimes)
  /\ categorySum(state.categoryStats, DOMAIN state.categoryStats, "correct")
       = state.correct

\* Answers of two categories were recorded, a correct one and a wrong one
\* among them.
C30_Witness ==
  /\ Cardinality(DOMAIN state.categoryStats) = 2
  /\ state.correct > 0
  /\ state.correct < Len(state.answers)

=============================================================================
